---- MODULE Spec2Model ----
(***************************************************************************)
(* Model of the stitch timeline engine (jadenpxrk/stitch, web/src/lib):    *)
(* smoothing of raw per-tick labels, segment building, cleanup, fix        *)
(* suggestion / bridge eligibility, and the session store that re-runs     *)
(* the pipeline.                                                           *)
(*                                                                         *)
(* Units.  Times (ts, start, end, durations) are integers counting tenths  *)
(* of a second: 1.0s = 10, 0.5s = 5, 0.3s = 3.  Confidences are integers   *)
(* counting hundredths: 0.95 = 95.                                         *)
(***************************************************************************)
EXTENDS Integers, Sequences, FiniteSets, TLC

VARIABLES
  SESSIONS,     \* sessionStore: Map<string, SessionState>, a function on the ids it holds
  RUNNING,      \* sessionStore: Map<string, RealtimeVision>; set of ids present
  smoothIn,     \* smoother harness: the raw ticks handed to smoothTicks
  smoothOut,    \* smoother harness: what smoothTicks returned for smoothIn
  cleanupIn,    \* cleanup harness: the segment list handed to cleanupSegments
  cleanupArg,   \* cleanup harness: that same list object after the call
  cleanupOut,   \* cleanup harness: what cleanupSegments returned
  CAPTION_JOBS, \* sessionStore: Map<string, Promise<void>>, session id to job number
  jobs,         \* the caption jobs started so far, by number: the session id a job
                \* works for, whether the session object it captured is still the
                \* one SESSIONS holds (live), and how far it has come (pc)
  decorateIn,   \* decorator harness: the cleaned segment list handed over
  decorateRec,  \* decorator harness: the hasRecording flag handed over
  decorateOut,  \* decorator harness: the list after suggestFix and the decorator
  returned,     \* what the last session store call returned: "none" before any
                \* call, "null" for the not-found result, "state" otherwise,
                \* "pending" while the call waits for its caption job
  called,       \* the last session store call: its name and arguments
  planned,      \* what the last computeEditPlan call returned
  calls,        \* the store calls that have yielded at an await and not yet
                \* returned: name, session id, whether the session object the call
                \* holds is still the one SESSIONS holds (live), position (pc)
  buildOut,     \* pipeline harness: what buildSegments returned for smoothOut, smoothIn
  finalOut,     \* pipeline harness: the final segments for the tick log smoothIn
  backendOut,   \* smoother harness: what the backend smoothTicks returned for smoothIn
  mobileOut,    \* smoother harness: the mobile client's state and buffer after each
                \* tick of smoothIn
  renderIn,     \* render harness: the plan segments given to renderFinalMp4 and
                \* whether VEO_BRIDGE_CMD is set
  renderOut     \* render harness: how renderFinalMp4 ended and its updated segments

vars == <<SESSIONS, RUNNING, returned, called, smoothIn, smoothOut, cleanupIn, cleanupArg,
          cleanupOut, decorateIn, decorateRec, decorateOut, CAPTION_JOBS, jobs,
          planned, calls, buildOut, finalOut, backendOut, mobileOut,
                 renderIn, renderOut>>

(***************************************************************************)
(* Program constants                                                       *)
(***************************************************************************)
MIN_GOOD == 10
MIN_SHAKY == 5
MERGE_GAP == 5
TWO_OF_THREE == 3
HIGH_CONFIDENCE == 95
ONE_SECOND == 10
BRIDGE_SUGGEST_MAX == 20
BRIDGE_MAX_DURATION == 80

(***************************************************************************)
(* Bounds of the model                                                     *)
(***************************************************************************)
MaxSmoothTicks == 7
MaxCleanupSegs == 4
MaxTicks == 3
MaxDecorateSegs == 3
MaxJobs == 2
MaxCalls == 2
MaxBuildTicks == 4
MaxScenarioTicks == 10

\* confidences a tick may carry: low, just below the override, at it
ConfValues == {20, 94, 95}
\* durations a harness segment may have: 0.3s, 0.7s, 1.0s, 2.5s
SegDurations == {3, 7, 10, 25}
\* durations a decorator harness segment may have: 2.0s and 2.1s (either side
\* of the suggestion threshold), 7.9s and 8.0s (either side of the bridge limit)
DecorateDurations == {BRIDGE_SUGGEST_MAX, BRIDGE_SUGGEST_MAX + 1,
                      BRIDGE_MAX_DURATION - 1, BRIDGE_MAX_DURATION}
\* distance in time from one appended tick to the next: the nominal 1 Hz,
\* or irregular (0.3s or 1s)
NominalSteps == {ONE_SECOND}
TickSteps == {3, 10}
SessionConfs == {20, 95}
\* the ts of the first tick of a log and the gaps between later ticks, in
\* tenths of a second: a tick at 0, ticks closer and farther apart than 1s
FirstTs == {0, 3, 20}
BuildSteps == {3, 10, 20}
\* the confidences the classifier gives in the scenario of ten ticks
ScenarioConf == [shaky |-> 60, good |-> 20]
\* the confidence of a classification payload: a number (in hundredths; below
\* 0, inside [0, 1], above 1), a text that is no number, or none at all
PayloadConfs ==
  {[type |-> "number", value |-> v] : v \in {0 - 10, 20, 150}}
    \cup {[type |-> "string"], [type |-> "undefined"]}
Ids == {"s1"}
\* an id no session is ever started under
Strangers == {"s0"}
Fixes == {"CUT", "STABILIZE", "BRIDGE"}

NULL == "null"
UNDEFINED == "undefined"

Max(a, b) == IF a >= b THEN a ELSE b

(***************************************************************************)
(* smoothing.ts: smoothTicks                                               *)
(***************************************************************************)
twoOfThreeShakyLoose(shakyCount) == shakyCount >= 1
twoOfThreeShaky(shakyCount) == shakyCount >= 2

twoOfThreeGoodLoose(shakyCount) == shakyCount <= 2
twoOfThreeGood(shakyCount) == shakyCount <= 1

highConfidenceEarly(tick) == tick.raw.confidence >= HIGH_CONFIDENCE - 1
highConfidence(tick) == tick.raw.confidence >= HIGH_CONFIDENCE

\* buffer.push(...); if (buffer.length > TWO_OF_THREE) buffer.shift()
pushBuffer(buffer, shaky) ==
  LET pushed == Append(buffer, shaky)
  IN IF Len(pushed) > TWO_OF_THREE THEN Tail(pushed) ELSE pushed

\* buffer.filter(Boolean).length
countShaky(buffer) == Cardinality({j \in 1..Len(buffer) : buffer[j]})

\* the body of the forEach callback: the state after one tick
nextState(state, buffer, tick) ==
  LET shakyCount == countShaky(buffer)
  IN IF state = "GOOD"
     THEN (IF twoOfThreeShaky(shakyCount) \/ highConfidence(tick) THEN "SHAKY" ELSE "GOOD")
     ELSE (IF twoOfThreeGood(shakyCount) THEN "GOOD" ELSE "SHAKY")

RECURSIVE smoothFrom(_, _, _, _, _)
smoothFrom(raw, i, buffer, state, result) ==
  IF i > Len(raw) THEN result
  ELSE LET tick == raw[i]
           buf == pushBuffer(buffer, tick.raw.shaky)
           st == nextState(state, buf, tick)
       IN smoothFrom(raw, i + 1, buf, st,
                     Append(result, [tick |-> tick.tick, ts |-> tick.ts, finalState |-> st]))

smoothTicks(raw) == smoothFrom(raw, 1, <<>>, "GOOD", <<>>)

(***************************************************************************)
(* The backend's and the mobile client's smoothers                         *)
(***************************************************************************)
\* the tick as the backend and the mobile client hold it: { ts, shaky, confidence }
flatTick(tick) ==
  [ts |-> tick.ts, shaky |-> tick.raw.shaky, confidence |-> tick.raw.confidence]

\* while (buf.length > 3) buf.shift()
RECURSIVE shiftDown(_)
shiftDown(buf) == IF Len(buf) > 3 THEN shiftDown(Tail(buf)) ELSE buf

\* the backend's smoothTicks: the body of its for loop, tick i onwards
RECURSIVE backendSmoothFrom(_, _, _, _, _)
backendSmoothFrom(ticks, i, buf, state, smoothed) ==
  IF i > Len(ticks) THEN smoothed
  ELSE LET t == ticks[i]
           pushed == shiftDown(Append(buf, t.shaky))
           shakyCount == countShaky(pushed)
           st == IF state = "GOOD" /\ (shakyCount >= 2 \/ t.confidence >= HIGH_CONFIDENCE)
                 THEN "SHAKY"
                 ELSE IF state = "SHAKY" /\ shakyCount <= 1 THEN "GOOD"
                 ELSE state
       IN backendSmoothFrom(ticks, i + 1, pushed, st,
                            Append(smoothed, [ts |-> t.ts, finalState |-> st, raw |-> t]))

backendSmoothTicks(ticks) == backendSmoothFrom(ticks, 1, <<>>, "GOOD", <<>>)

\* array.slice(-n)
sliceLast(array, n) ==
  IF Len(array) <= n THEN array ELSE SubSeq(array, Len(array) - n + 1, Len(array))

\* the mobile smoother keeping one more raw flag in its buffer
nextSmoothedStateWide(rawShakyBuffer, currentState, raw) ==
  LET buffer == Append(sliceLast(rawShakyBuffer, 3), raw.shaky)
      shakyCount == countShaky(buffer)
  IN IF currentState = "GOOD" /\ (shakyCount >= 2 \/ raw.confidence >= HIGH_CONFIDENCE)
     THEN [nextState |-> "SHAKY", nextBuffer |-> buffer]
     ELSE IF currentState = "SHAKY" /\ shakyCount <= 1
     THEN [nextState |-> "GOOD", nextBuffer |-> buffer]
     ELSE [nextState |-> currentState, nextBuffer |-> buffer]

\* the mobile client's nextSmoothedState
nextSmoothedState(rawShakyBuffer, currentState, raw) ==
  LET buffer == Append(sliceLast(rawShakyBuffer, 2), raw.shaky)
      shakyCount == countShaky(buffer)
  IN IF currentState = "GOOD" /\ (shakyCount >= 2 \/ raw.confidence >= HIGH_CONFIDENCE)
     THEN [nextState |-> "SHAKY", nextBuffer |-> buffer]
     ELSE IF currentState = "SHAKY" /\ shakyCount <= 1
     THEN [nextState |-> "GOOD", nextBuffer |-> buffer]
     ELSE [nextState |-> currentState, nextBuffer |-> buffer]

\* the mobile client's tick handler, tick after tick: rawBufferRef.current,
\* currentState and smoothedTicks start as [], GOOD and []
RECURSIVE mobileSmoothFrom(_, _, _, _, _)
mobileSmoothFrom(ticks, i, rawBuffer, currentState, smoothedTicks) ==
  IF i > Len(ticks) THEN smoothedTicks
  ELSE LET step == nextSmoothedState(rawBuffer, currentState, ticks[i])
       IN mobileSmoothFrom(ticks, i + 1, step.nextBuffer, step.nextState,
                           Append(smoothedTicks,
                                  [ts |-> ticks[i].ts, finalState |-> step.nextState]))

mobileSmoothTicks(ticks) == mobileSmoothFrom(ticks, 1, <<>>, "GOOD", <<>>)

(***************************************************************************)
(* segments.ts: ids                                                        *)
(***************************************************************************)
Digit(d) ==
  CASE d = 0 -> "0" [] d = 1 -> "1" [] d = 2 -> "2" [] d = 3 -> "3" [] d = 4 -> "4"
    [] d = 5 -> "5" [] d = 6 -> "6" [] d = 7 -> "7" [] d = 8 -> "8" [] d = 9 -> "9"

\* `seg_${String(n).padStart(4, "0")}` for 0 <= n <= 9999
segId(n) ==
  "seg_" \o Digit((n \div 1000) % 10) \o Digit((n \div 100) % 10)
         \o Digit((n \div 10) % 10) \o Digit(n % 10)

(***************************************************************************)
(* renderPipeline.ts: runExternalBridge, renderFinalMp4                    *)
(***************************************************************************)
\* what the VEO_BRIDGE_CMD process may do: exit 0, exit non-zero, or fail to
\* start
ExternalOutcomes == {"exit 0", "exit 1", "spawn error"}

\* runExternalBridge: false without VEO_BRIDGE_CMD, true on exit code 0, and
\* an Error thrown on any other exit code.  A command that cannot be started
\* emits 'error' on the child, which has no listener: the process dies of the
\* unhandled event, or, where something catches that, 'close' arrives with a
\* non-zero code.
runExternalBridge(cmd, outcome) ==
  IF ~cmd THEN {"false"}
  ELSE IF outcome = "exit 0" THEN {"true"}
  ELSE IF outcome = "exit 1" THEN {"throws"}
  ELSE {"throws", "crash"}

NoOutputs ==
  [bridge_error |-> UNDEFINED, stabilized_clip_path |-> FALSE, bridge_clip_path |-> FALSE]

\* a segment of the plan given to the renderer
planSegment(n, start, end, type, final_fix) ==
  [id |-> segId(n), start |-> start, end |-> end, type |-> type,
   final_fix |-> final_fix, outputs |-> NoOutputs]

\* the for loop of renderFinalMp4 from index i on, and what follows it; the
\* set of ways it can end.  ffmpeg and the file system do their work.
RECURSIVE renderFrom(_, _, _, _, _)
renderFrom(plan, i, updatedSegments, piecePaths, env) ==
  IF i > Len(plan)
  THEN IF Len(piecePaths) = 0
       THEN {[ended |-> "throws", error |-> "Nothing to render",
              segments |-> <<>>, pieces |-> <<>>]}
       ELSE {[ended |-> "final", error |-> UNDEFINED,
              segments |-> updatedSegments, pieces |-> piecePaths]}
  ELSE LET seg == plan[i]
           duration == Max(0, seg.end - seg.start)
           fix == seg.final_fix
           stabilized == [updatedSegments EXCEPT ![i].outputs.stabilized_clip_path = TRUE]
       IN IF seg.type = "GOOD"
          THEN IF fix # "KEEP" THEN renderFrom(plan, i + 1, updatedSegments, piecePaths, env)
               ELSE renderFrom(plan, i + 1, updatedSegments,
                               Append(piecePaths, [seg |-> i, kind |-> "slice"]), env)
          ELSE IF fix = "CUT"
          THEN renderFrom(plan, i + 1, updatedSegments, piecePaths, env)
          ELSE IF fix = "STABILIZE"
          THEN renderFrom(plan, i + 1, stabilized,
                          Append(piecePaths, [seg |-> i, kind |-> "stabilized"]), env)
          ELSE IF fix = "BRIDGE"
          THEN IF duration >= BRIDGE_MAX_DURATION
               THEN renderFrom(plan, i + 1,
                               [stabilized EXCEPT
                                  ![i].outputs.bridge_error = "duration >= 8s (Veo limit)",
                                  ![i].final_fix = "STABILIZE"],
                               Append(piecePaths, [seg |-> i, kind |-> "stabilized"]), env)
               ELSE UNION
                      {IF usedExternal \in {"throws", "crash"}
                       THEN {[ended |-> usedExternal, error |-> "VEO_BRIDGE_CMD failed",
                              segments |-> <<>>, pieces |-> <<>>]}
                       ELSE renderFrom(plan, i + 1,
                                       [updatedSegments EXCEPT
                                          ![i].outputs.bridge_clip_path = TRUE],
                                       Append(piecePaths,
                                              [seg |-> i,
                                               kind |-> IF usedExternal = "true"
                                                        THEN "external" ELSE "fallback"]),
                                       env)
                       : usedExternal \in runExternalBridge(env.cmd, env.external[i])}
          ELSE renderFrom(plan, i + 1, updatedSegments, piecePaths, env)

renderFinalMp4(plan, env) == renderFrom(plan, 1, plan, <<>>, env)

(***************************************************************************)
(* segments.ts: buildSegments                                              *)
(***************************************************************************)
\* a segment object as buildSegments creates it: suggestedFix, userFix and
\* bridgeAllowed are not set (undefined), neither is confidenceAvg (<<>>).
\* bridgeAllowed, once set, is "true" or "false".
newSegment(n, start, end, type) ==
  [id |-> segId(n), start |-> start, end |-> end, type |-> type,
   finalFix |-> IF type = "GOOD" THEN "KEEP" ELSE "STABILIZE",
   confidenceAvg |-> <<>>, suggestedFix |-> UNDEFINED,
   userFix |-> UNDEFINED, bridgeAllowed |-> UNDEFINED]

\* the forEach of buildSegments from index idx on: st = [segments, current]
RECURSIVE buildFrom(_, _, _)
buildFrom(smoothed, idx, st) ==
  IF idx > Len(smoothed) THEN Append(st.segments, st.current)
  ELSE LET tick == smoothed[idx]
           tickStart == Max(0, tick.ts - ONE_SECOND)
           tickEnd == tick.ts
           unchanged == tick.finalState = st.current.type
       IN IF idx = 1
          THEN buildFrom(smoothed, idx + 1,
                 [st EXCEPT !.current.start = tickStart, !.current.end = tickEnd])
          ELSE IF unchanged
          THEN buildFrom(smoothed, idx + 1, [st EXCEPT !.current.end = tickEnd])
          ELSE buildFrom(smoothed, idx + 1,
                 [segments |-> Append(st.segments, st.current),
                  current |-> newSegment(Len(st.segments) + 1, tickStart, tickEnd,
                                         tick.finalState)])

RECURSIVE sumConfidence(_, _)
sumConfidence(raw, S) ==
  IF S = {} THEN 0
  ELSE LET j == CHOOSE x \in S : TRUE
       IN raw[j].raw.confidence + sumConfidence(raw, S \ {j})

\* the mean, kept as the pair <<sum, divisor>> the code divides
confidenceAvgOf(seg, raw) ==
  LET ticksInSegment == {j \in 1..Len(raw) : raw[j].ts > seg.start /\ raw[j].ts <= seg.end}
  IN <<sumConfidence(raw, ticksInSegment), Max(1, Cardinality(ticksInSegment))>>

buildSegments(smoothed, raw) ==
  IF Len(smoothed) = 0 THEN <<>>
  ELSE LET segments == buildFrom(smoothed, 1,
                         [segments |-> <<>>,
                          current |-> newSegment(0, 0, ONE_SECOND, smoothed[1].finalState)])
       IN [k \in 1..Len(segments) |->
             IF segments[k].type = "SHAKY"
             THEN [segments[k] EXCEPT !.confidenceAvg = confidenceAvgOf(segments[k], raw)]
             ELSE segments[k]]

(***************************************************************************)
(* segments.ts: cleanupSegments                                            *)
(***************************************************************************)
\* first loop, from index i on.  `segments` is the caller's array, whose
\* elements the loop may write to (next.start = seg.start); `cleaned` holds
\* copies.
\* a first loop that drops no SHAKY segment
RECURSIVE cleanupPass1Lenient(_, _, _)
cleanupPass1Lenient(segments, i, cleaned) ==
  IF i > Len(segments) THEN [segments |-> segments, cleaned |-> cleaned]
  ELSE LET seg == segments[i]
           shortGood == seg.type = "GOOD" /\ seg.end - seg.start < MIN_GOOD
       IN IF shortGood /\ Len(cleaned) > 0 /\ cleaned[Len(cleaned)].type = "GOOD"
          THEN cleanupPass1Lenient(segments, i + 1,
                                   [cleaned EXCEPT ![Len(cleaned)].end = seg.end])
          ELSE IF shortGood /\ i + 1 <= Len(segments) /\ segments[i + 1].type = "GOOD"
          THEN cleanupPass1Lenient([segments EXCEPT ![i + 1].start = seg.start], i + 1,
                                   cleaned)
          ELSE cleanupPass1Lenient(segments, i + 1, Append(cleaned, seg))

\* a first loop that takes a segment of exactly 1.0s for a short one, of
\* either type
RECURSIVE cleanupPass1Inclusive(_, _, _)
cleanupPass1Inclusive(segments, i, cleaned) ==
  IF i > Len(segments) THEN [segments |-> segments, cleaned |-> cleaned]
  ELSE LET seg == segments[i]
           duration == seg.end - seg.start
           shortGood == seg.type = "GOOD" /\ duration <= MIN_GOOD
       IN IF shortGood /\ Len(cleaned) > 0 /\ cleaned[Len(cleaned)].type = "GOOD"
          THEN cleanupPass1Inclusive(segments, i + 1,
                                     [cleaned EXCEPT ![Len(cleaned)].end = seg.end])
          ELSE IF shortGood /\ i + 1 <= Len(segments) /\ segments[i + 1].type = "GOOD"
          THEN cleanupPass1Inclusive([segments EXCEPT ![i + 1].start = seg.start], i + 1,
                                     cleaned)
          ELSE IF seg.type = "SHAKY" /\ duration <= MIN_GOOD
          THEN cleanupPass1Inclusive(segments, i + 1, cleaned)
          ELSE cleanupPass1Inclusive(segments, i + 1, Append(cleaned, seg))

RECURSIVE cleanupPass1(_, _, _)
cleanupPass1(segments, i, cleaned) ==
  IF i > Len(segments) THEN [segments |-> segments, cleaned |-> cleaned]
  ELSE LET seg == segments[i]
           duration == seg.end - seg.start
           shortGood == seg.type = "GOOD" /\ duration < MIN_GOOD
       IN IF shortGood /\ Len(cleaned) > 0 /\ cleaned[Len(cleaned)].type = "GOOD"
          THEN cleanupPass1(segments, i + 1,
                            [cleaned EXCEPT ![Len(cleaned)].end = seg.end])
          ELSE IF shortGood /\ i + 1 <= Len(segments) /\ segments[i + 1].type = "GOOD"
          THEN cleanupPass1([segments EXCEPT ![i + 1].start = seg.start], i + 1, cleaned)
          ELSE IF seg.type = "SHAKY" /\ duration < MIN_SHAKY
          THEN cleanupPass1(segments, i + 1, cleaned)
          ELSE cleanupPass1(segments, i + 1, Append(cleaned, seg))

\* second loop, from index i on
RECURSIVE cleanupPass2(_, _, _)
cleanupPass2(cleaned, i, merged) ==
  IF i > Len(cleaned) THEN merged
  ELSE LET cur == cleaned[i]
       IN IF /\ cur.type = "SHAKY"
             /\ cur.end - cur.start < MERGE_GAP
             /\ Len(merged) > 0
             /\ i + 1 <= Len(cleaned)
             /\ merged[Len(merged)].type = "GOOD"
             /\ cleaned[i + 1].type = "GOOD"
          THEN cleanupPass2(cleaned, i + 2,
                            [merged EXCEPT ![Len(merged)].end = cleaned[i + 1].end])
          ELSE cleanupPass2(cleaned, i + 1, Append(merged, cur))

renumber(merged) == [k \in 1..Len(merged) |-> [merged[k] EXCEPT !.id = segId(k - 1)]]

\* the call as a whole: what it returns (out) and what it leaves in the
\* array it was given (arg)
cleanupCall(segments) ==
  IF Len(segments) = 0 THEN [out |-> <<>>, arg |-> segments]
  ELSE LET p1 == cleanupPass1(segments, 1, <<>>)
       IN [out |-> renumber(cleanupPass2(p1.cleaned, 1, <<>>)), arg |-> p1.segments]

cleanupSegments(segments) == cleanupCall(segments).out

(***************************************************************************)
(* segments.ts: suggestFix, decorateSegmentsForBridgeAbility               *)
(***************************************************************************)
\* a ?? b
Coalesce(a, b) == IF a = NULL \/ a = UNDEFINED THEN b ELSE a

\* a suggestion with the 2.0s threshold excluded
suggestFixStrict(seg) ==
  IF seg.type = "GOOD" THEN [seg EXCEPT !.finalFix = "KEEP"]
  ELSE LET duration == seg.end - seg.start
           suggestedFix == IF duration < BRIDGE_SUGGEST_MAX THEN "BRIDGE" ELSE "STABILIZE"
       IN [seg EXCEPT !.suggestedFix = suggestedFix,
                      !.finalFix = Coalesce(seg.userFix, suggestedFix)]

\* a suggestion that backs off from BRIDGE once it has suggested it
suggestFixWavering(seg) ==
  IF seg.type = "GOOD" THEN [seg EXCEPT !.finalFix = "KEEP"]
  ELSE LET duration == seg.end - seg.start
           suggestedFix == IF duration <= BRIDGE_SUGGEST_MAX /\ seg.suggestedFix # "BRIDGE"
                           THEN "BRIDGE" ELSE "STABILIZE"
       IN [seg EXCEPT !.suggestedFix = suggestedFix,
                      !.finalFix = Coalesce(seg.userFix, suggestedFix)]

suggestFix(seg) ==
  IF seg.type = "GOOD" THEN [seg EXCEPT !.finalFix = "KEEP"]
  ELSE LET duration == seg.end - seg.start
           suggestedFix == IF duration <= BRIDGE_SUGGEST_MAX THEN "BRIDGE" ELSE "STABILIZE"
       IN [seg EXCEPT !.suggestedFix = suggestedFix,
                      !.finalFix = Coalesce(seg.userFix, suggestedFix)]

\* a decorator with the 8.0s limit included
decorateSegmentsInclusive(segments, hasRecording) ==
  [idx \in 1..Len(segments) |->
     LET seg == segments[idx]
     IN IF seg.type # "SHAKY" THEN seg
        ELSE LET bridgeAllowed ==
                   /\ seg.end - seg.start <= BRIDGE_MAX_DURATION
                   /\ idx - 1 >= 1
                   /\ idx + 1 <= Len(segments)
                   /\ segments[idx - 1].type = "GOOD"
                   /\ segments[idx + 1].type = "GOOD"
                   /\ hasRecording
             IN [seg EXCEPT !.bridgeAllowed = IF bridgeAllowed THEN "true" ELSE "false"]]

\* a decorator that takes the user's BRIDGE back where a bridge is not allowed
decorateSegmentsClearing(segments, hasRecording) ==
  [idx \in 1..Len(segments) |->
     LET seg == segments[idx]
     IN IF seg.type # "SHAKY" THEN seg
        ELSE LET bridgeAllowed ==
                   /\ seg.end - seg.start < BRIDGE_MAX_DURATION
                   /\ idx - 1 >= 1
                   /\ idx + 1 <= Len(segments)
                   /\ segments[idx - 1].type = "GOOD"
                   /\ segments[idx + 1].type = "GOOD"
                   /\ hasRecording
             IN IF bridgeAllowed THEN [seg EXCEPT !.bridgeAllowed = "true"]
                ELSE [seg EXCEPT !.bridgeAllowed = "false",
                                 !.userFix = IF @ = "BRIDGE" THEN UNDEFINED ELSE @,
                                 !.finalFix = IF seg.userFix = "BRIDGE" THEN seg.suggestedFix
                                              ELSE @]]

decorateSegmentsForBridgeAbility(segments, hasRecording) ==
  [idx \in 1..Len(segments) |->
     LET seg == segments[idx]
     IN IF seg.type # "SHAKY" THEN seg
        ELSE LET bridgeAllowed ==
                   /\ seg.end - seg.start < BRIDGE_MAX_DURATION
                   /\ idx - 1 >= 1
                   /\ idx + 1 <= Len(segments)
                   /\ segments[idx - 1].type = "GOOD"
                   /\ segments[idx + 1].type = "GOOD"
                   /\ hasRecording
             IN [seg EXCEPT !.bridgeAllowed = IF bridgeAllowed THEN "true" ELSE "false"]]

\* the two decoration lines of recompute: cleaned.map(suggestFix), then the
\* bridge decorator
decorate(cleaned, hasRecording) ==
  decorateSegmentsForBridgeAbility([k \in 1..Len(cleaned) |-> suggestFix(cleaned[k])],
                                   hasRecording)

(***************************************************************************)
(* sessionStore.ts                                                         *)
(***************************************************************************)
\* the truthiness of a recordingUrl value
Truthy(v) == v # NULL /\ v # UNDEFINED /\ v # ""

\* state.introTrim === undefined
NoIntroTrim == [defined |-> FALSE]
\* decision === null
NoDecision == [type |-> NULL]

DEFAULT_SESSION ==
  [id |-> "", status |-> "idle", startedAt |-> NULL, stoppedAt |-> NULL,
   rawTicks |-> <<>>, smoothed |-> <<>>, segmentsRaw |-> <<>>, segmentsFinal |-> <<>>,
   duration |-> NULL, recordingUrl |-> NULL,
   captions |-> [status |-> "idle"], introTrim |-> NoIntroTrim]

\* a call of an exported function of the store, with the arguments it got
Call(op, id) == [op |-> op, id |-> id, segmentId |-> UNDEFINED, fix |-> UNDEFINED]
FixCall(id, segmentId, fix) ==
  [op |-> "setUserFix", id |-> id, segmentId |-> segmentId, fix |-> fix]
NoCall == Call("none", UNDEFINED)

\* SESSIONS.get(id) found a session
Known(id) == id \in DOMAIN SESSIONS

\* SESSIONS.set(id, state)
sessionsSet(id, state) ==
  [x \in DOMAIN SESSIONS \cup {id} |-> IF x = id THEN state ELSE SESSIONS[x]]

hasRecording(state) == Truthy(state.recordingUrl)

\* an incremental recompute: a segment keeps the userFix its predecessor of the
\* same id carried
recomputeCarryingFixes(state) ==
  LET smoothed == smoothTicks(state.rawTicks)
      built == buildSegments(smoothed, state.rawTicks)
      call == cleanupCall(built)
      old == state.segmentsFinal
      carried == [k \in 1..Len(call.out) |->
                    IF k <= Len(old) /\ old[k].type = call.out[k].type
                    THEN [call.out[k] EXCEPT !.userFix = old[k].userFix]
                    ELSE call.out[k]]
      suggested == [k \in 1..Len(carried) |-> suggestFix(carried[k])]
      decorated == decorateSegmentsForBridgeAbility(suggested, hasRecording(state))
  IN [state EXCEPT !.smoothed = smoothed,
                   !.segmentsRaw = call.arg,
                   !.segmentsFinal = decorated]

recompute(state) ==
  LET smoothed == smoothTicks(state.rawTicks)
      built == buildSegments(smoothed, state.rawTicks)
      call == cleanupCall(built)
      suggested == [k \in 1..Len(call.out) |-> suggestFix(call.out[k])]
      decorated == decorateSegmentsForBridgeAbility(suggested, hasRecording(state))
  IN [state EXCEPT !.smoothed = smoothed,
                   !.segmentsRaw = call.arg,
                   !.segmentsFinal = decorated]

\* newSession: a fresh running session replaces whatever SESSIONS held for
\* id; createVision returns a vision only when an API key is configured
startSession(id) ==
  /\ \E vision \in BOOLEAN :
       RUNNING' = IF vision THEN RUNNING \cup {id} ELSE RUNNING
  /\ SESSIONS' = sessionsSet(id, [DEFAULT_SESSION EXCEPT !.id = id, !.status = "running",
                                                         !.startedAt = "time"])
  /\ returned' = "state"
  /\ called' = Call("startSession", id)

\* what fetchRecording may answer: a URL or null
FetchedUrls == {"fetched", NULL}

\* a fetchRecordingUrl that asks for the recording whether or not RUNNING
\* still holds a vision for the session
fetchRecordingUrlAnyway(state, running) ==
  {[state EXCEPT !.recordingUrl = url] : url \in FetchedUrls} \cup {state}

\* fetchRecordingUrl(state) with the RUNNING table it finds: the states it
\* may leave.  Without a vision under state.id it returns at once; with one
\* it assigns what fetchRecording returns, or nothing when that throws.
fetchRecordingUrl(state, running) ==
  IF state.id \notin running THEN {state}
  ELSE {[state EXCEPT !.recordingUrl = url] : url \in FetchedUrls} \cup {state}

stopSession(id) ==
  \E recordingUrl \in {UNDEFINED, "", "url"} :
    /\ called' = Call("stopSession", id)
    /\ IF ~Known(id)
       THEN /\ returned' = "null"
            /\ UNCHANGED <<SESSIONS, RUNNING>>
       ELSE LET state == SESSIONS[id]
                stopped == [state EXCEPT
                              !.status = "stopped",
                              !.stoppedAt = "time",
                              !.duration = IF state.startedAt # NULL THEN "elapsed" ELSE @,
                              !.recordingUrl = IF Truthy(recordingUrl) THEN recordingUrl ELSE @]
            IN \* RUNNING.delete(id) comes before fetchRecordingUrl's lookup
               /\ RUNNING' = RUNNING \ {id}
               /\ \E fetched \in fetchRecordingUrl(stopped, RUNNING') :
                    SESSIONS' = [SESSIONS EXCEPT ![id] = recompute(fetched)]
               /\ returned' = "state"

\* the tick an ingestion point hands over: numbered in order, later in time
\* than the last one
nextTick(state, step, shaky, confidence) ==
  LET n == Len(state.rawTicks)
      last == IF n = 0 THEN 0 ELSE state.rawTicks[n].ts
  IN [tick |-> n + 1, ts |-> last + step,
      raw |-> [shaky |-> shaky, confidence |-> confidence]]

\* steps: the distances in time the caller may put between two ticks
appendTick(id, steps) ==
  /\ called' = Call("appendTick", id)
  /\ IF ~Known(id)
     THEN /\ returned' = "null"
          /\ UNCHANGED <<SESSIONS, RUNNING>>
     ELSE /\ Len(SESSIONS[id].rawTicks) < MaxTicks
          /\ \E step \in steps, shaky \in BOOLEAN, confidence \in SessionConfs :
               LET state == SESSIONS[id]
                   tick == nextTick(state, step, shaky, confidence)
               IN SESSIONS' = [SESSIONS EXCEPT ![id] =
                                 recompute([state EXCEPT !.rawTicks = Append(@, tick)])]
          /\ returned' = "state"
          /\ UNCHANGED RUNNING

\* an appendTick that yields between the push and the recompute
appendRawDeferred(id, raw) ==
  /\ called' = Call("appendTick", id)
  /\ IF ~Known(id)
     THEN /\ returned' = "null"
          /\ UNCHANGED <<SESSIONS, RUNNING>>
     ELSE /\ Len(SESSIONS[id].rawTicks) < MaxTicks
          /\ SESSIONS' = [SESSIONS EXCEPT ![id].rawTicks =
                            Append(@, [nextTick(SESSIONS[id], ONE_SECOND, raw.shaky,
                                                raw.confidence) EXCEPT !.raw = raw])]
          /\ returned' = "state"
          /\ UNCHANGED RUNNING

\* appendTick with the tick's raw part as the ingestion point built it
appendRaw(id, raw) ==
  /\ called' = Call("appendTick", id)
  /\ IF ~Known(id)
     THEN /\ returned' = "null"
          /\ UNCHANGED <<SESSIONS, RUNNING>>
     ELSE /\ Len(SESSIONS[id].rawTicks) < MaxTicks
          /\ LET state == SESSIONS[id]
                 tick == [nextTick(state, ONE_SECOND, raw.shaky, raw.confidence)
                            EXCEPT !.raw = raw]
             IN SESSIONS' = [SESSIONS EXCEPT ![id] =
                               recompute([state EXCEPT !.rawTicks = Append(@, tick)])]
          /\ returned' = "state"
          /\ UNCHANGED RUNNING

\* Number.isFinite(parsed?.confidence) ? Number(parsed.confidence) : 0
\* Number.isFinite is true of finite numbers only, false of texts and undefined
onResultRaw(shaky, confidence) ==
  [shaky |-> shaky,
   confidence |-> IF confidence.type = "number" THEN confidence.value ELSE 0]

\* Number(raw.confidence ?? 0): a text that is no number converts to NaN. A NaN
\* confidence is kept as the field nan next to confidence 0: every read of it
\* in the pipeline gives what 0 gives (NaN >= 0.95 is false, NaN || 0 is 0).
tickRouteRaw(shaky, confidence) ==
  IF confidence.type = "undefined" THEN [shaky |-> shaky, confidence |-> 0]
  ELSE IF confidence.type = "number" THEN [shaky |-> shaky, confidence |-> confidence.value]
  ELSE [shaky |-> shaky, confidence |-> 0, nan |-> TRUE]

\* appendTick called with a tick: not shaky with low confidence, or shaky
\* with a confidence at the override
tickArrives(id) ==
  \E shaky \in BOOLEAN :
    appendRaw(id, [shaky |-> shaky,
                   confidence |-> IF shaky THEN HIGH_CONFIDENCE ELSE ScenarioConf.good])

\* the vision's callback; there is a vision for the sessions in RUNNING
onResult(id) ==
  /\ id \in RUNNING
  /\ \E shaky \in BOOLEAN, confidence \in PayloadConfs :
       appendRaw(id, onResultRaw(shaky, confidence))

\* POST of the tick route
tickRoute(id) ==
  \E shaky \in BOOLEAN, confidence \in PayloadConfs :
    appendRaw(id, tickRouteRaw(shaky, confidence))

\* a lookup that falls back to the first segment
findSegmentOrFirst(segments, segmentId) ==
  LET hits == {k \in 1..Len(segments) : segments[k].id = segmentId}
  IN IF hits = {} THEN (IF Len(segments) > 0 THEN 1 ELSE 0)
     ELSE CHOOSE k \in hits : \A h \in hits : k <= h

\* state.segmentsFinal.find((s) => s.id === segmentId): its index, 0 if none
findSegment(segments, segmentId) ==
  LET hits == {k \in 1..Len(segments) : segments[k].id = segmentId}
  IN IF hits = {} THEN 0 ELSE CHOOSE k \in hits : \A h \in hits : k <= h

\* an override that also rewrites the suggestion
setUserFixResuggesting(id) ==
  \E n \in 0..MaxTicks, fix \in Fixes :
    LET segmentId == segId(n)
        target == IF Known(id) THEN findSegment(SESSIONS[id].segmentsFinal, segmentId) ELSE 0
    IN /\ called' = FixCall(id, segmentId, fix)
       /\ IF target = 0
          THEN /\ returned' = "null"
               /\ UNCHANGED <<SESSIONS, RUNNING>>
          ELSE /\ SESSIONS' = [SESSIONS EXCEPT ![id].segmentsFinal[target].userFix = fix,
                                               ![id].segmentsFinal[target].finalFix = fix,
                                               ![id].segmentsFinal[target].suggestedFix = fix]
               /\ returned' = "state"
               /\ UNCHANGED RUNNING

setUserFix(id) ==
  \E n \in 0..MaxTicks, fix \in Fixes :
    LET segmentId == segId(n)
        target == IF Known(id) THEN findSegment(SESSIONS[id].segmentsFinal, segmentId) ELSE 0
    IN /\ called' = FixCall(id, segmentId, fix)
       /\ IF target = 0
          THEN /\ returned' = "null"
               /\ UNCHANGED <<SESSIONS, RUNNING>>
          ELSE /\ SESSIONS' = [SESSIONS EXCEPT ![id].segmentsFinal[target].userFix = fix,
                                               ![id].segmentsFinal[target].finalFix = fix]
               /\ returned' = "state"
               /\ UNCHANGED RUNNING

(***************************************************************************)
(* woodwide.ts: createIntroTrimDecision; sessionStore.ts: applyIntroTrim   *)
(***************************************************************************)
MIN_TRIM_THRESHOLD == 20

\* a decision only above the threshold
createIntroTrimDecisionStrict(prediction) ==
  IF prediction.intro_trim_seconds <= MIN_TRIM_THRESHOLD THEN NoDecision
  ELSE [type |-> "TRIM_INTRO", trim_seconds |-> prediction.intro_trim_seconds,
        prediction |-> prediction]

createIntroTrimDecision(prediction) ==
  IF prediction.intro_trim_seconds < MIN_TRIM_THRESHOLD THEN NoDecision
  ELSE [type |-> "TRIM_INTRO", trim_seconds |-> prediction.intro_trim_seconds,
        prediction |-> prediction]

\* what the external predictor may answer (already clamped to [0, 8s]):
\* nothing to trim, 1.9s, exactly 2.0s, 2.5s
TrimPredictions == {0, 19, 20, 25}

applyIntroTrim(id) ==
  /\ called' = Call("applyIntroTrim", id)
  /\ IF ~Known(id) \/ SESSIONS[id].status = "idle"
     THEN /\ returned' = "null"
          /\ UNCHANGED <<SESSIONS, RUNNING>>
     ELSE /\ \/ \E seconds \in TrimPredictions :
                 LET prediction == [intro_trim_seconds |-> seconds]
                 IN SESSIONS' = [SESSIONS EXCEPT ![id].introTrim =
                                   [defined |-> TRUE, prediction |-> prediction,
                                    decision |-> createIntroTrimDecision(prediction),
                                    error |-> UNDEFINED]]
             \* processIntroTrim threw
             \/ SESSIONS' = [SESSIONS EXCEPT ![id].introTrim =
                               [defined |-> TRUE, prediction |-> [intro_trim_seconds |-> 0],
                                decision |-> NoDecision, error |-> "message"]]
          /\ returned' = "state"
          /\ UNCHANGED RUNNING

(***************************************************************************)
(* sessionStore.ts: computeEditPlan                                        *)
(***************************************************************************)
trimSegment(seg, trimSeconds) ==
  IF seg.end <= trimSeconds THEN [seg EXCEPT !.finalFix = "CUT"]
  ELSE IF seg.start < trimSeconds /\ seg.end > trimSeconds
  THEN [seg EXCEPT !.start = trimSeconds]
  ELSE seg

\* computeEditPlan returned null
NoPlan == [version |-> NULL]

\* a reader that hands out a plan only once the session has stopped
computeEditPlanStoppedOnly(id) ==
  IF ~Known(id) \/ SESSIONS[id].status # "stopped" THEN NoPlan
  ELSE [version |-> 1, duration |-> SESSIONS[id].duration, session_id |-> id,
        recording_url |-> UNDEFINED, intro_trim |-> NoDecision,
        segments |-> SESSIONS[id].segmentsFinal]

computeEditPlan(id) ==
  IF ~Known(id) \/ SESSIONS[id].status = "idle" THEN NoPlan
  ELSE LET state == SESSIONS[id]
           introTrim == IF state.introTrim.defined THEN state.introTrim.decision
                        ELSE NoDecision
           trimSeconds == IF introTrim.type = NULL THEN 0 ELSE introTrim.trim_seconds
           NonEmpty(seg) == seg.end > seg.start
           mapped == [k \in 1..Len(state.segmentsFinal) |->
                        trimSegment(state.segmentsFinal[k], trimSeconds)]
           segments == IF trimSeconds > 0 THEN SelectSeq(mapped, NonEmpty)
                       ELSE state.segmentsFinal
       IN [version |-> 1,
           duration |-> IF state.duration # NULL THEN state.duration
                        ELSE IF Len(state.rawTicks) > 0
                        THEN state.rawTicks[Len(state.rawTicks)].ts ELSE 0,
           session_id |-> state.id,
           recording_url |-> IF state.recordingUrl = NULL THEN UNDEFINED
                             ELSE state.recordingUrl,
           intro_trim |-> introTrim,
           segments |-> segments]

\* a caller asks for the plan (the plan route, the export handler); "plan"
\* when one came back
getPlan(id) ==
  /\ planned' = computeEditPlan(id)
  /\ called' = Call("computeEditPlan", id)
  /\ returned' = IF computeEditPlan(id) = NoPlan THEN "null" ELSE "plan"
  /\ UNCHANGED <<SESSIONS, RUNNING>>

(***************************************************************************)
(* The session store as a state machine                                    *)
(***************************************************************************)
\* the state after construction of each part
SmoothIdle == smoothIn = <<>> /\ smoothOut = <<>>
CleanupIdle == cleanupIn = <<>> /\ cleanupArg = <<>> /\ cleanupOut = <<>>
StoreIdle ==
  /\ SESSIONS = [id \in {} |-> DEFAULT_SESSION] /\ RUNNING = {}
  /\ returned = "none" /\ called = NoCall

DecorateIdle == decorateIn = <<>> /\ decorateRec = FALSE /\ decorateOut = <<>>

CaptionsIdle == CAPTION_JOBS = [id \in {} |-> 0] /\ jobs = <<>>

BuildIdle == buildOut = <<>> /\ finalOut = <<>>

SmoothersIdle == backendOut = <<>> /\ mobileOut = <<>>

\* no render asked for yet
NoRender == [ended |-> NULL]
RenderIdle ==
  /\ renderIn = [segments |-> <<>>, external |-> <<>>, cmd |-> FALSE]
  /\ renderOut = NoRender

ReaderIdle == planned = NoPlan /\ calls = <<>>

harnessVars ==
  <<smoothIn, smoothOut, cleanupIn, cleanupArg, cleanupOut,
    decorateIn, decorateRec, decorateOut, buildOut, finalOut,
    backendOut, mobileOut, renderIn, renderOut>>

\* the harnesses, the last plan and the calls under way are left alone
PureIdle == UNCHANGED <<harnessVars, planned, calls>>

\* the harnesses and the caption jobs are left alone
HarnessIdle == PureIdle /\ UNCHANGED <<CAPTION_JOBS, jobs>>

Init ==
  /\ SmoothIdle /\ CleanupIdle /\ DecorateIdle /\ BuildIdle
  /\ SmoothersIdle /\ RenderIdle
  /\ CaptionsIdle /\ ReaderIdle /\ StoreIdle

Next ==
  \E id \in Ids :
    \/ startSession(id) /\ HarnessIdle
    \/ stopSession(id) /\ HarnessIdle
    \/ appendTick(id, NominalSteps) /\ HarnessIdle
    \/ setUserFix(id) /\ HarnessIdle

\* the session store fed at the nominal tick rate
Spec == Init /\ [][Next]_vars

\* the session store with intro trim in place of user overrides, fed with
\* irregularly spaced ticks
NextTrim ==
  \E id \in Ids :
    \/ startSession(id) /\ HarnessIdle
    \/ stopSession(id) /\ HarnessIdle
    \/ appendTick(id, TickSteps) /\ HarnessIdle
    \/ applyIntroTrim(id) /\ HarnessIdle

SpecTrim == Init /\ [][NextTrim]_vars

\* the store with its two ingestion points
NextIngest ==
  \E id \in Ids :
    \/ startSession(id) /\ HarnessIdle
    \/ stopSession(id) /\ HarnessIdle
    \/ onResult(id) /\ HarnessIdle
    \/ tickRoute(id) /\ HarnessIdle

SpecIngest == Init /\ [][NextIngest]_vars

\* the store with its plan readers: planned holds what the last call returned
\* when it was a computeEditPlan call, and nothing after any other call
PlanIdle == planned' = NoPlan /\ UNCHANGED <<harnessVars, calls, CAPTION_JOBS, jobs>>

NextPlan ==
  \/ \E id \in Ids :
       \/ startSession(id) /\ PlanIdle
       \/ stopSession(id) /\ PlanIdle
       \/ appendTick(id, TickSteps) /\ PlanIdle
       \/ applyIntroTrim(id) /\ PlanIdle
  \/ \E id \in Ids \cup Strangers :
       getPlan(id) /\ UNCHANGED <<harnessVars, calls, CAPTION_JOBS, jobs>>

SpecPlan == Init /\ [][NextPlan]_vars

\* the session store called with ids it holds and with an id it never held
NextLookup ==
  \/ \E id \in Ids : startSession(id) /\ HarnessIdle
  \/ \E id \in Ids \cup Strangers : stopSession(id) /\ HarnessIdle
  \/ \E id \in Ids \cup Strangers : appendTick(id, NominalSteps) /\ HarnessIdle
  \/ \E id \in Ids \cup Strangers : setUserFix(id) /\ HarnessIdle

SpecLookup == Init /\ [][NextLookup]_vars


(***************************************************************************)
(* sessionStore.ts: generateCaptions and its background job                *)
(***************************************************************************)
\* state.captions?.startedAt
startedAtOf(captions) ==
  IF "startedAt" \in DOMAIN captions THEN captions.startedAt ELSE UNDEFINED

captionsReady(captions) ==
  [status |-> "ready", vttPath |-> "captions.vtt",
   startedAt |-> startedAtOf(captions), finishedAt |-> "time"]

captionsError(captions) ==
  [status |-> "error", error |-> "message",
   startedAt |-> startedAtOf(captions), finishedAt |-> "time"]

\* CAPTION_JOBS.set(id, job)
captionJobsSet(id, job) ==
  [x \in DOMAIN CAPTION_JOBS \cup {id} |-> IF x = id THEN job ELSE CAPTION_JOBS[x]]

\* CAPTION_JOBS.delete(id)
captionJobsDelete(id) == [x \in DOMAIN CAPTION_JOBS \ {id} |-> CAPTION_JOBS[x]]

\* what generateCaptions does once the early returns are behind it: mark the
\* captions running, start the job (which runs up to its first await) and
\* register it; the call then waits for the job
startCaptionJob(id, state) ==
  /\ Len(jobs) < MaxJobs
  /\ SESSIONS' = [SESSIONS EXCEPT ![id] =
                    [state EXCEPT !.captions = [status |-> "running", startedAt |-> "time"]]]
  /\ jobs' = Append(jobs, [id |-> id, live |-> TRUE, pc |-> "transcribing"])
  /\ CAPTION_JOBS' = captionJobsSet(id, Len(jobs) + 1)
  /\ returned' = "pending"

\* generateCaptions without the early return on captions.status === "running"
generateCaptionsUnguarded(id) ==
  \E recordingUrl \in {UNDEFINED, "url"} :
    /\ called' = Call("generateCaptions", id)
    /\ UNCHANGED RUNNING
    /\ IF ~Known(id)
       THEN /\ returned' = "null"
            /\ UNCHANGED <<SESSIONS, CAPTION_JOBS, jobs>>
       ELSE LET state == [SESSIONS[id] EXCEPT
                            !.recordingUrl = IF Truthy(recordingUrl) THEN recordingUrl ELSE @]
                Return(captions) ==
                  /\ SESSIONS' = [SESSIONS EXCEPT ![id] = [state EXCEPT !.captions = captions]]
                  /\ returned' = "state"
                  /\ UNCHANGED <<CAPTION_JOBS, jobs>>
            IN IF state.status # "stopped"
               THEN Return([status |-> "error", error |-> "session not stopped"])
               ELSE IF ~Truthy(state.recordingUrl)
               THEN Return([status |-> "error", error |-> "recordingUrl missing"])
               ELSE IF state.captions.status = "ready" /\ Truthy(state.captions.vttPath)
               THEN Return(state.captions)
               ELSE startCaptionJob(id, state)

\* the part of generateCaptions that runs before it waits for the job
generateCaptions(id) ==
  \E recordingUrl \in {UNDEFINED, "url"} :
    /\ called' = Call("generateCaptions", id)
    /\ UNCHANGED RUNNING
    /\ IF ~Known(id)
       THEN /\ returned' = "null"
            /\ UNCHANGED <<SESSIONS, CAPTION_JOBS, jobs>>
       ELSE LET state == [SESSIONS[id] EXCEPT
                            !.recordingUrl = IF Truthy(recordingUrl) THEN recordingUrl ELSE @]
                Return(captions) ==
                  /\ SESSIONS' = [SESSIONS EXCEPT ![id] = [state EXCEPT !.captions = captions]]
                  /\ returned' = "state"
                  /\ UNCHANGED <<CAPTION_JOBS, jobs>>
            IN IF state.status # "stopped"
               THEN Return([status |-> "error", error |-> "session not stopped"])
               ELSE IF ~Truthy(state.recordingUrl)
               THEN Return([status |-> "error", error |-> "recordingUrl missing"])
               ELSE IF state.captions.status = "running"
               THEN Return(state.captions)
               ELSE IF state.captions.status = "ready" /\ Truthy(state.captions.vttPath)
               THEN Return(state.captions)
               ELSE startCaptionJob(id, state)

\* a job whose writes never reach the session
jobWritesNothing(j, status) == UNCHANGED SESSIONS

\* a job writes to the session object it captured; the write shows in
\* SESSIONS only while that object is still the one stored under the id
jobWrites(j, status) ==
  IF jobs[j].live
  THEN SESSIONS' = [SESSIONS EXCEPT ![jobs[j].id].captions =
                      IF status = "ready" THEN captionsReady(@) ELSE captionsError(@)]
  ELSE UNCHANGED SESSIONS

\* generateCaptionsForSession resolved: captions ready, then persistPlan if
\* computeEditPlan gave a plan
captionJobTranscribed(j) ==
  /\ j \in 1..Len(jobs) /\ jobs[j].pc = "transcribing"
  /\ jobWrites(j, "ready")
  /\ jobs' = [jobs EXCEPT ![j].pc = IF computeEditPlan(jobs[j].id) # NoPlan
                                    THEN "persisting" ELSE "settled"]
  /\ UNCHANGED <<RUNNING, CAPTION_JOBS, returned, called>>

\* persistPlan resolved: the job's promise resolves
captionJobPersisted(j) ==
  /\ j \in 1..Len(jobs) /\ jobs[j].pc = "persisting"
  /\ jobs' = [jobs EXCEPT ![j].pc = "settled"]
  /\ UNCHANGED <<SESSIONS, RUNNING, CAPTION_JOBS, returned, called>>

\* a handler that gives up the session's segments along with the captions
captionJobFailedResetting(j) ==
  /\ j \in 1..Len(jobs) /\ jobs[j].pc \in {"transcribing", "persisting"}
  /\ IF jobs[j].live
     THEN SESSIONS' = [SESSIONS EXCEPT ![jobs[j].id] =
                         [@ EXCEPT !.captions = captionsError(@),
                                   !.segmentsFinal = <<>>]]
     ELSE UNCHANGED SESSIONS
  /\ jobs' = [jobs EXCEPT ![j].pc = "settled"]
  /\ UNCHANGED <<RUNNING, CAPTION_JOBS, returned, called>>

\* generateCaptionsForSession or persistPlan threw: the catch handler
captionJobFailed(j) ==
  /\ j \in 1..Len(jobs) /\ jobs[j].pc \in {"transcribing", "persisting"}
  /\ jobWrites(j, "error")
  /\ jobs' = [jobs EXCEPT ![j].pc = "settled"]
  /\ UNCHANGED <<RUNNING, CAPTION_JOBS, returned, called>>

\* generateCaptions after `await job`: CAPTION_JOBS.delete(id); return state
generateCaptionsResumed(j) ==
  /\ j \in 1..Len(jobs) /\ jobs[j].pc = "settled"
  /\ CAPTION_JOBS' = captionJobsDelete(jobs[j].id)
  /\ jobs' = [jobs EXCEPT ![j].pc = "returned"]
  /\ returned' = "state"
  /\ called' = Call("generateCaptions", jobs[j].id)
  /\ UNCHANGED <<SESSIONS, RUNNING>>

\* newSession puts a fresh object under the id: jobs that captured the old
\* one keep writing to the old one
restartDetaches(id) ==
  jobs' = [j \in 1..Len(jobs) |->
             IF jobs[j].id = id THEN [jobs[j] EXCEPT !.live = FALSE] ELSE jobs[j]]

NextCaptions ==
  \/ \E id \in Ids : startSession(id) /\ restartDetaches(id) /\ UNCHANGED CAPTION_JOBS
                        /\ PureIdle
  \/ \E id \in Ids : stopSession(id) /\ HarnessIdle
  \/ \E id \in Ids : generateCaptions(id) /\ PureIdle
  \/ \E j \in 1..MaxJobs : captionJobTranscribed(j) /\ PureIdle
  \/ \E j \in 1..MaxJobs : captionJobPersisted(j) /\ PureIdle
  \/ \E j \in 1..MaxJobs : captionJobFailed(j) /\ PureIdle
  \/ \E j \in 1..MaxJobs : generateCaptionsResumed(j) /\ PureIdle

SpecCaptions == Init /\ [][NextCaptions]_vars

\* the steps of job j and of the call that waits for it.  Each follows an
\* await on an external call (caption generation, persistPlan) or on the job
\* itself; when the awaited call returns or throws, the event loop runs the
\* continuation.
JobStep(j) ==
  /\ \/ captionJobTranscribed(j)
     \/ captionJobPersisted(j)
     \/ captionJobFailed(j)
     \/ generateCaptionsResumed(j)
  /\ PureIdle

\* the store with every awaited call of a caption job terminating
SpecCaptionsFair == SpecCaptions /\ \A j \in 1..MaxJobs : WF_vars(JobStep(j))

\* the same with ticks arriving, before and after the stop: appendTick does
\* not look at the session's status
NextCaptionLog ==
  \/ NextCaptions
  \/ \E id \in Ids : tickArrives(id) /\ HarnessIdle

SpecCaptionLog == Init /\ [][NextCaptionLog]_vars

(***************************************************************************)
(* The store with the awaits of startSession and stopSession as points      *)
(* where other calls run.  calls holds the calls that wait at an await.     *)
(* appendTick pushes and recomputes in one synchronous stretch and touches  *)
(* the session no more after its first await; setUserFix has no await.      *)
(***************************************************************************)
\* seq without its c-th element
dropCall(seq, c) == SubSeq(seq, 1, c - 1) \o SubSeq(seq, c + 1, Len(seq))

\* SESSIONS.set(id, state) in newSession: the calls under way on id hold the
\* object that was there before
detachCalls(id) ==
  [c \in 1..Len(calls) |->
     IF calls[c].id = id THEN [calls[c] EXCEPT !.live = FALSE] ELSE calls[c]]

\* newSession up to `await ensureSessionDir(id)`
startSessionBegun(id) ==
  /\ Len(calls) < MaxCalls
  /\ SESSIONS' = sessionsSet(id, [DEFAULT_SESSION EXCEPT !.id = id, !.status = "running",
                                                         !.startedAt = "time"])
  /\ calls' = Append(detachCalls(id),
                     [op |-> "startSession", id |-> id, live |-> TRUE,
                      pc |-> "ensureSessionDir", recordingUrl |-> UNDEFINED])
  /\ called' = Call("startSession", id)
  /\ returned' = "pending"
  /\ UNCHANGED RUNNING

\* newSession after the await: createVision, RUNNING.set(id, vision), return
startSessionResumed(c) ==
  /\ c \in 1..Len(calls)
  /\ calls[c].op = "startSession" /\ calls[c].pc = "ensureSessionDir"
  /\ \E vision \in BOOLEAN :
       RUNNING' = IF vision THEN RUNNING \cup {calls[c].id} ELSE RUNNING
  /\ calls' = dropCall(calls, c)
  /\ called' = Call("startSession", calls[c].id)
  /\ returned' = "state"
  /\ UNCHANGED SESSIONS

\* the assignments of stopSession between its first two awaits, on the
\* object the call holds
markStopped(state, recordingUrl) ==
  [state EXCEPT !.status = "stopped",
                !.stoppedAt = "time",
                !.duration = IF state.startedAt # NULL THEN "elapsed" ELSE @,
                !.recordingUrl = IF Truthy(recordingUrl) THEN recordingUrl ELSE @]

\* stopSession up to its first await: `await vision.stop()` when RUNNING
\* holds a vision for id, else `await fetchRecordingUrl(state)`, whose
\* lookup in RUNNING runs before the call yields
stopSessionBegun(id) ==
  \E recordingUrl \in {UNDEFINED, "", "url"} :
    /\ called' = Call("stopSession", id)
    /\ IF ~Known(id)
       THEN /\ returned' = "null"
            /\ UNCHANGED <<SESSIONS, RUNNING, calls>>
       ELSE /\ Len(calls) < MaxCalls
            /\ returned' = "pending"
            /\ UNCHANGED RUNNING
            /\ IF id \in RUNNING
               THEN /\ calls' = Append(calls, [op |-> "stopSession", id |-> id,
                                               live |-> TRUE, pc |-> "vision.stop",
                                               recordingUrl |-> recordingUrl])
                    /\ UNCHANGED SESSIONS
               ELSE /\ calls' = Append(calls, [op |-> "stopSession", id |-> id,
                                               live |-> TRUE, pc |-> "fetchRecordingUrl",
                                               recordingUrl |-> recordingUrl])
                    /\ \E fetched \in fetchRecordingUrl(markStopped(SESSIONS[id], recordingUrl),
                                                        RUNNING) :
                         SESSIONS' = [SESSIONS EXCEPT ![id] = fetched]

\* vision.stop() settled: RUNNING.delete(id), the assignments, then
\* `await fetchRecordingUrl(state)`, whose lookup in RUNNING runs before the
\* call yields
stopSessionVisionStopped(c) ==
  /\ c \in 1..Len(calls)
  /\ calls[c].op = "stopSession" /\ calls[c].pc = "vision.stop"
  /\ RUNNING' = RUNNING \ {calls[c].id}
  /\ IF calls[c].live
     THEN \E fetched \in fetchRecordingUrl(markStopped(SESSIONS[calls[c].id],
                                                       calls[c].recordingUrl), RUNNING') :
            SESSIONS' = [SESSIONS EXCEPT ![calls[c].id] = fetched]
     ELSE UNCHANGED SESSIONS
  /\ calls' = [calls EXCEPT ![c].pc = "fetchRecordingUrl"]
  /\ UNCHANGED <<called, returned>>

\* after `await fetchRecordingUrl(state)`: recompute(state); persistArtifacts
\* reads the session and writes files; return state
stopSessionResumed(c) ==
  /\ c \in 1..Len(calls)
  /\ calls[c].op = "stopSession" /\ calls[c].pc = "fetchRecordingUrl"
  /\ IF calls[c].live
     THEN SESSIONS' = [SESSIONS EXCEPT ![calls[c].id] = recompute(@)]
     ELSE UNCHANGED SESSIONS
  /\ calls' = dropCall(calls, c)
  /\ called' = Call("stopSession", calls[c].id)
  /\ returned' = "state"
  /\ UNCHANGED RUNNING

AsyncIdle == UNCHANGED <<harnessVars, planned, CAPTION_JOBS, jobs>>

NextAsync ==
  \/ \E id \in Ids :
       \/ startSessionBegun(id) /\ AsyncIdle
       \/ stopSessionBegun(id) /\ AsyncIdle
       \/ tickArrives(id) /\ HarnessIdle
       \/ setUserFix(id) /\ HarnessIdle
  \/ \E c \in 1..MaxCalls :
       \/ startSessionResumed(c) /\ AsyncIdle
       \/ stopSessionVisionStopped(c) /\ AsyncIdle
       \/ stopSessionResumed(c) /\ AsyncIdle

SpecAsync == Init /\ [][NextAsync]_vars

(***************************************************************************)
(* web/src/lib/sessionStore.ts: the store as that file has it.  It differs *)
(* from the store above in recompute, which tells the decorator that a     *)
(* recording exists whatever the session holds.                            *)
(***************************************************************************)
webRecompute(state) ==
  LET smoothed == smoothTicks(state.rawTicks)
      built == buildSegments(smoothed, state.rawTicks)
      call == cleanupCall(built)
      suggested == [k \in 1..Len(call.out) |-> suggestFix(call.out[k])]
      decorated == decorateSegmentsForBridgeAbility(suggested, TRUE)
  IN [state EXCEPT !.smoothed = smoothed,
                   !.segmentsRaw = call.arg,
                   !.segmentsFinal = decorated]

webStopSession(id) ==
  \E recordingUrl \in {UNDEFINED, "", "url"} :
    /\ called' = Call("stopSession", id)
    /\ IF ~Known(id)
       THEN /\ returned' = "null"
            /\ UNCHANGED <<SESSIONS, RUNNING>>
       ELSE LET state == SESSIONS[id]
                stopped == [state EXCEPT
                              !.status = "stopped",
                              !.stoppedAt = "time",
                              !.duration = IF state.startedAt # NULL THEN "elapsed" ELSE @,
                              !.recordingUrl = IF Truthy(recordingUrl) THEN recordingUrl ELSE @]
            IN /\ RUNNING' = RUNNING \ {id}
               /\ SESSIONS' = [SESSIONS EXCEPT ![id] = webRecompute(stopped)]
               /\ returned' = "state"

webAppendTick(id, steps) ==
  /\ called' = Call("appendTick", id)
  /\ IF ~Known(id)
     THEN /\ returned' = "null"
          /\ UNCHANGED <<SESSIONS, RUNNING>>
     ELSE /\ Len(SESSIONS[id].rawTicks) < MaxTicks
          /\ \E step \in steps, shaky \in BOOLEAN, confidence \in SessionConfs :
               LET state == SESSIONS[id]
                   tick == nextTick(state, step, shaky, confidence)
               IN SESSIONS' = [SESSIONS EXCEPT ![id] =
                                 webRecompute([state EXCEPT !.rawTicks = Append(@, tick)])]
          /\ returned' = "state"
          /\ UNCHANGED RUNNING

NextWeb ==
  \E id \in Ids :
    \/ startSession(id) /\ HarnessIdle
    \/ webStopSession(id) /\ HarnessIdle
    \/ webAppendTick(id, NominalSteps) /\ HarnessIdle
    \/ setUserFix(id) /\ HarnessIdle

SpecWeb == Init /\ [][NextWeb]_vars

(***************************************************************************)
(* Harness of the smoother: ticks one second apart, numbered from 1        *)
(***************************************************************************)
harnessTick(n, shaky, confidence) ==
  [tick |-> n, ts |-> n * ONE_SECOND, raw |-> [shaky |-> shaky, confidence |-> confidence]]


\* one more raw tick, then smoothTicks over the whole list
SmoothStep ==
  /\ Len(smoothIn) < MaxSmoothTicks
  /\ \E shaky \in BOOLEAN, confidence \in ConfValues :
       /\ smoothIn' = Append(smoothIn, harnessTick(Len(smoothIn) + 1, shaky, confidence))
       /\ smoothOut' = smoothTicks(smoothIn')
  /\ UNCHANGED <<SESSIONS, RUNNING, returned, called, cleanupIn, cleanupArg, cleanupOut,
               decorateIn, decorateRec, decorateOut, CAPTION_JOBS, jobs,
               planned, calls, buildOut, finalOut, backendOut, mobileOut,
                 renderIn, renderOut>>

InitSmooth == Init
NextSmooth == SmoothStep
SpecSmooth == InitSmooth /\ [][NextSmooth]_vars

\* the longest tick list given to the three smoothers together
MaxSmootherTicks == 6

\* one more raw tick, then each of the three smoothers over the whole list
SmoothersStep ==
  /\ Len(smoothIn) < MaxSmootherTicks
  /\ \E shaky \in BOOLEAN, confidence \in ConfValues :
       /\ smoothIn' = Append(smoothIn, harnessTick(Len(smoothIn) + 1, shaky, confidence))
       /\ smoothOut' = smoothTicks(smoothIn')
       /\ backendOut' = backendSmoothTicks([k \in 1..Len(smoothIn') |-> flatTick(smoothIn'[k])])
       /\ mobileOut' = mobileSmoothTicks([k \in 1..Len(smoothIn') |-> flatTick(smoothIn'[k])])
  /\ UNCHANGED <<SESSIONS, RUNNING, returned, called, cleanupIn, cleanupArg, cleanupOut,
                 decorateIn, decorateRec, decorateOut, CAPTION_JOBS, jobs,
                 planned, calls, buildOut, finalOut, renderIn, renderOut>>

NextSmoothers == SmoothersStep
SpecSmoothers == Init /\ [][NextSmoothers]_vars

(***************************************************************************)
(* Harness of the whole pipeline: tick logs with any first ts and any gaps *)
(***************************************************************************)
\* what recompute computes from a tick log, without a recording
pipelineOut(raw) ==
  decorate(cleanupSegments(buildSegments(smoothTicks(raw), raw)), FALSE)

\* one more raw tick at a later ts, then the pipeline over the whole list
PipelineStep(firsts, steps, confs) ==
  \E shaky \in BOOLEAN, confidence \in confs,
     ts \in IF Len(smoothIn) = 0 THEN firsts
            ELSE {smoothIn[Len(smoothIn)].ts + d : d \in steps} :
    /\ smoothIn' = Append(smoothIn,
                          [tick |-> Len(smoothIn) + 1, ts |-> ts,
                           raw |-> [shaky |-> shaky, confidence |-> confidence]])
    /\ smoothOut' = smoothTicks(smoothIn')
    /\ buildOut' = buildSegments(smoothOut', smoothIn')
    /\ finalOut' = pipelineOut(smoothIn')
    /\ UNCHANGED <<SESSIONS, RUNNING, returned, called, cleanupIn, cleanupArg, cleanupOut,
                   decorateIn, decorateRec, decorateOut, CAPTION_JOBS, jobs,
                   planned, calls, backendOut, mobileOut, renderIn, renderOut>>

BuildStep ==
  /\ Len(smoothIn) < MaxBuildTicks
  /\ PipelineStep(FirstTs, BuildSteps, SessionConfs)

NextBuild == BuildStep
SpecBuild == Init /\ [][NextBuild]_vars

\* the scenario stream: ticks at 1 Hz from ts = 1, the classifier giving 0.6
\* when it says shaky and 0.2 when it does not
ScenarioStep ==
  /\ Len(smoothIn) < MaxScenarioTicks
  /\ \/ PipelineStep({ONE_SECOND}, {ONE_SECOND}, {ScenarioConf.shaky})
        /\ smoothIn'[Len(smoothIn')].raw.shaky
     \/ PipelineStep({ONE_SECOND}, {ONE_SECOND}, {ScenarioConf.good})
        /\ ~smoothIn'[Len(smoothIn')].raw.shaky

NextScenario == ScenarioStep
SpecScenario == Init /\ [][NextScenario]_vars

\* the longest tick log at the nominal rate
MaxNominalTicks == 7

\* a tick log at the nominal rate: ts = 1, 2, ..., exactly 1s apart, with any
\* flags and confidences
NominalStep ==
  /\ Len(smoothIn) < MaxNominalTicks
  /\ PipelineStep({ONE_SECOND}, NominalSteps, SessionConfs)

NextNominal == NominalStep
SpecNominal == Init /\ [][NextNominal]_vars

(***************************************************************************)
(* Harness of cleanup: any contiguous segment list that starts at 0        *)
(***************************************************************************)
\* one more segment, starting where the list ends, then cleanupSegments over
\* the whole list
CleanupStep ==
  /\ Len(cleanupIn) < MaxCleanupSegs
  /\ \E type \in {"GOOD", "SHAKY"}, d \in SegDurations :
       LET start == IF Len(cleanupIn) = 0 THEN 0 ELSE cleanupIn[Len(cleanupIn)].end
           call == cleanupCall(Append(cleanupIn,
                     newSegment(Len(cleanupIn), start, start + d, type)))
       IN /\ cleanupIn' = Append(cleanupIn, newSegment(Len(cleanupIn), start, start + d, type))
          /\ cleanupArg' = call.arg
          /\ cleanupOut' = call.out
  /\ UNCHANGED <<SESSIONS, RUNNING, returned, called, smoothIn, smoothOut,
               decorateIn, decorateRec, decorateOut, CAPTION_JOBS, jobs,
               planned, calls, buildOut, finalOut, backendOut, mobileOut,
                 renderIn, renderOut>>

InitCleanup == Init
NextCleanup == CleanupStep
SpecCleanup == InitCleanup /\ [][NextCleanup]_vars

(***************************************************************************)
(* Harness of the decorators: any contiguous list of segments that starts  *)
(* at 0, of either type in any order, with or without a user override      *)
(***************************************************************************)
\* one more segment, starting where the list ends, then suggestFix over every
\* segment and the bridge decorator over the whole list
DecorateWith(fixes) ==
  /\ Len(decorateIn) < MaxDecorateSegs
  /\ \E type \in {"GOOD", "SHAKY"}, d \in DecorateDurations,
        userFix \in fixes, rec \in BOOLEAN :
       LET start == IF Len(decorateIn) = 0 THEN 0 ELSE decorateIn[Len(decorateIn)].end
           seg == [newSegment(Len(decorateIn), start, start + d, type)
                     EXCEPT !.userFix = userFix]
       IN /\ decorateIn' = Append(decorateIn, seg)
          /\ decorateRec' = rec
          /\ decorateOut' = decorate(decorateIn', rec)
  /\ UNCHANGED <<SESSIONS, RUNNING, returned, called, smoothIn, smoothOut,
                 cleanupIn, cleanupArg, cleanupOut, CAPTION_JOBS, jobs,
                 planned, calls, buildOut, finalOut, backendOut, mobileOut,
                 renderIn, renderOut>>

DecorateStep == DecorateWith({UNDEFINED, "CUT"})

(***************************************************************************)
(* Harness of the renderer: any plan of GOOD and SHAKY segments            *)
(***************************************************************************)
MaxRenderSegs == 3

\* one more segment in the plan, then renderFinalMp4 over the whole plan,
\* with or without VEO_BRIDGE_CMD
RenderStep ==
  /\ Len(renderIn.segments) < MaxRenderSegs
  /\ \E type \in {"GOOD", "SHAKY"}, d \in {BRIDGE_SUGGEST_MAX, BRIDGE_MAX_DURATION},
        fix \in {"KEEP", "CUT", "STABILIZE", "BRIDGE"},
        outcome \in ExternalOutcomes, cmd \in BOOLEAN :
       LET n == Len(renderIn.segments)
           start == IF n = 0 THEN 0 ELSE renderIn.segments[n].end
       IN /\ (type = "GOOD") = (fix = "KEEP")
          /\ (type = "GOOD" \/ fix # "BRIDGE") =>
                (d = BRIDGE_SUGGEST_MAX /\ outcome = "exit 0")
          /\ renderIn' = [segments |-> Append(renderIn.segments,
                                              planSegment(n, start, start + d, type, fix)),
                          external |-> Append(renderIn.external, outcome),
                          cmd |-> cmd]
          /\ renderOut' \in renderFinalMp4(renderIn'.segments, renderIn')
  /\ UNCHANGED <<SESSIONS, RUNNING, returned, called, smoothIn, smoothOut,
                 cleanupIn, cleanupArg, cleanupOut, decorateIn, decorateRec, decorateOut,
                 CAPTION_JOBS, jobs, planned, calls, buildOut, finalOut,
                 backendOut, mobileOut>>

NextRender == RenderStep
SpecRender == Init /\ [][NextRender]_vars

InitDecorate == Init
NextDecorate == DecorateStep
SpecDecorate == InitDecorate /\ [][NextDecorate]_vars

\* the same with segments the user has chosen BRIDGE for
OverrideStep == DecorateWith({UNDEFINED, "BRIDGE"})

NextOverride == OverrideStep
SpecOverride == Init /\ [][NextOverride]_vars

(***************************************************************************)
(* Claims about cleanupSegments (SpecCleanup)                              *)
(***************************************************************************)
IsContiguous(segs) ==
  /\ Len(segs) > 0 => segs[1].start = 0
  /\ \A i \in 2..Len(segs) : segs[i].start = segs[i - 1].end

SameSpan(a, b) == a.start = b.start /\ a.end = b.end /\ a.type = b.type

\* C2: for any contiguous segment list starting at 0, the cleaned list is
\* contiguous: it starts at 0 and each segment starts where the previous one
\* ends.
C2_CleanedContiguous == IsContiguous(cleanupOut)

\* C4: cleanupSegments applied to a list of exactly one segment, of either
\* type and any duration, returns that one segment.
C4_SingleSegmentKept ==
  Len(cleanupIn) = 1 =>
    Len(cleanupOut) = 1 /\ SameSpan(cleanupOut[1], cleanupIn[1])

\* the input is GOOD, SHAKY, GOOD with the SHAKY segment shorter than MIN_SHAKY
GoodShortShakyGood(segs) ==
  /\ Len(segs) = 3
  /\ segs[1].type = "GOOD" /\ segs[2].type = "SHAKY" /\ segs[3].type = "GOOD"
  /\ segs[2].end - segs[2].start < MIN_SHAKY

\* C5: for an input GOOD, SHAKY, GOOD whose SHAKY segment is shorter than
\* MIN_SHAKY, the output holds no SHAKY segment and its GOOD segments cover
\* the whole span from the left segment's start to the right segment's end
\* with no gap.
C5_ShortShakyFolded ==
  GoodShortShakyGood(cleanupIn) =>
    /\ \A i \in 1..Len(cleanupOut) : cleanupOut[i].type = "GOOD"
    /\ Len(cleanupOut) > 0
    /\ cleanupOut[1].start = cleanupIn[1].start
    /\ cleanupOut[Len(cleanupOut)].end = cleanupIn[3].end
    /\ \A i \in 2..Len(cleanupOut) : cleanupOut[i].start <= cleanupOut[i - 1].end

\* C6: for a non-empty contiguous input starting at 0, the output's first
\* segment starts at 0 and its last segment ends where the input's last
\* segment ended.
C6_CoverPreserved ==
  Len(cleanupIn) > 0 =>
    /\ Len(cleanupOut) > 0
    /\ cleanupOut[1].start = 0
    /\ cleanupOut[Len(cleanupOut)].end = cleanupIn[Len(cleanupIn)].end

HasGoodNeighbour(segs, i) ==
  \/ i > 1 /\ segs[i - 1].type = "GOOD"
  \/ i < Len(segs) /\ segs[i + 1].type = "GOOD"

\* C7: after cleanup no SHAKY segment is shorter than MIN_SHAKY, and a GOOD
\* segment shorter than MIN_GOOD remains only where no GOOD segment is
\* adjacent to it in the output.
C7_NoNoiseSurvives ==
  \A i \in 1..Len(cleanupOut) :
    LET seg == cleanupOut[i]
        duration == seg.end - seg.start
    IN /\ seg.type = "SHAKY" => duration >= MIN_SHAKY
       /\ (seg.type = "GOOD" /\ duration < MIN_GOOD) => ~HasGoodNeighbour(cleanupOut, i)

(***************************************************************************)
(* Claims about smoothTicks (SpecSmooth)                                   *)
(***************************************************************************)
\* C8: every tick k with raw.shaky = true and raw.confidence >= 0.95 has
\* finalState = SHAKY at tick k, whatever the earlier ticks were.
C8_HighConfidenceOverride ==
  \A k \in 1..Len(smoothIn) :
    (smoothIn[k].raw.shaky /\ smoothIn[k].raw.confidence >= HIGH_CONFIDENCE)
      => smoothOut[k].finalState = "SHAKY"

\* C9: the smoothed state never flickers: there is no tick k at which
\* finalState differs from tick k-1 and differs again at tick k+1.
C9_NoFlicker ==
  \A k \in 2..(Len(smoothOut) - 1) :
    ~(/\ smoothOut[k].finalState # smoothOut[k - 1].finalState
      /\ smoothOut[k + 1].finalState # smoothOut[k].finalState)

AllBelowOverride(raw) == \A j \in 1..Len(raw) : raw[j].raw.confidence < HIGH_CONFIDENCE

\* tick k is shaky and the two ticks before it and the two after it (those
\* the stream holds so far) are not
IsolatedShaky(raw, k) ==
  /\ raw[k].raw.shaky
  /\ \A j \in {k - 2, k - 1, k + 1, k + 2} \cap (1..Len(raw)) : ~raw[j].raw.shaky

\* C10: when every confidence is below 0.95, a single shaky tick whose two
\* preceding and two following ticks are not shaky never makes finalState
\* SHAKY at that tick or at any tick whose window contains it (k, k+1, k+2).
C10_NoSingleTickFlicker ==
  AllBelowOverride(smoothIn) =>
    \A k \in 1..Len(smoothIn) :
      IsolatedShaky(smoothIn, k) =>
        \A j \in (k..(k + 2)) \cap (1..Len(smoothIn)) : smoothOut[j].finalState = "GOOD"

C10_Witness ==
  /\ AllBelowOverride(smoothIn)
  /\ \E k \in 3..(Len(smoothIn) - 2) :
       /\ IsolatedShaky(smoothIn, k)
       /\ smoothOut[k].finalState = "GOOD"
       /\ \E j \in 1..(k - 3) : smoothOut[j].finalState = "SHAKY"

NeverShaky(raw) == \A j \in 1..Len(raw) : ~raw[j].raw.shaky

\* C11: for a tick sequence of any length in which raw.shaky is false and
\* confidence < 0.95 at every tick, smoothTicks reports finalState = GOOD at
\* every tick.
C11_SmoothingStable ==
  (NeverShaky(smoothIn) /\ AllBelowOverride(smoothIn)) =>
    /\ Len(smoothOut) = Len(smoothIn)
    /\ \A k \in 1..Len(smoothOut) : smoothOut[k].finalState = "GOOD"

\* a stream of at least four calm ticks, one of them just below the override
C11_Witness ==
  /\ Len(smoothIn) >= 4
  /\ NeverShaky(smoothIn) /\ AllBelowOverride(smoothIn)
  /\ \E j \in 1..Len(smoothIn) : smoothIn[j].raw.confidence = HIGH_CONFIDENCE - 1
  /\ \A k \in 1..Len(smoothOut) : smoothOut[k].finalState = "GOOD"

(***************************************************************************)
(* Claims about the session store (Spec)                                   *)
(***************************************************************************)
\* the step appended one tick to the log of session id
AppendedTick(id) ==
  /\ id \in DOMAIN SESSIONS /\ id \in DOMAIN SESSIONS'
  /\ Len(SESSIONS'[id].rawTicks) = Len(SESSIONS[id].rawTicks) + 1

\* C1: once setUserFix(.., "CUT") has succeeded on a SHAKY segment, an
\* appendTick whose recompute leaves that segment's start, end and type
\* unchanged leaves userFix = "CUT" and finalFix = "CUT" on the segment
\* covering the same time range.
C1_OverrideSurvivesAppend ==
  [][\A id \in Ids :
       AppendedTick(id) =>
         \A i \in 1..Len(SESSIONS[id].segmentsFinal) :
           LET seg == SESSIONS[id].segmentsFinal[i]
           IN (seg.type = "SHAKY" /\ seg.userFix = "CUT") =>
                \A j \in 1..Len(SESSIONS'[id].segmentsFinal) :
                  LET after == SESSIONS'[id].segmentsFinal[j]
                  IN SameSpan(seg, after) =>
                       after.userFix = "CUT" /\ after.finalFix = "CUT"]_vars

GoodKept(segs) ==
  \A i \in 1..Len(segs) : segs[i].type = "GOOD" => segs[i].finalFix = "KEEP"

\* C3: in every reachable session state and in every plan computeEditPlan
\* returns, each GOOD segment has finalFix = KEEP (a setUserFix aimed at a
\* GOOD segment does not change it).
C3_GoodAlwaysKeep ==
  \A id \in DOMAIN SESSIONS :
    /\ GoodKept(SESSIONS[id].segmentsFinal)
    /\ computeEditPlan(id) # NoPlan => GoodKept(computeEditPlan(id).segments)

\* the whole pipeline run from nothing over a tick log
FromScratch(rawTicks, rec) ==
  LET cleaned == cleanupSegments(buildSegments(smoothTicks(rawTicks), rawTicks))
  IN decorateSegmentsForBridgeAbility([k \in 1..Len(cleaned) |-> suggestFix(cleaned[k])], rec)

\* smoothed holds one entry per raw tick, at the same index, with the same
\* tick number and ts
IndexAligned(state) ==
  /\ Len(state.smoothed) = Len(state.rawTicks)
  /\ \A k \in 1..Len(state.rawTicks) :
       /\ state.smoothed[k].tick = state.rawTicks[k].tick
       /\ state.smoothed[k].ts = state.rawTicks[k].ts

Succeeded(op, id) == called'.op = op /\ called'.id = id /\ returned' = "state"

\* C12: after every appendTick that returns the session, smoothed is
\* smoothTicks(rawTicks) with one index-aligned entry per raw tick, and the
\* final segments are the result of the whole pipeline run from scratch over
\* the entire tick log; nothing of the previous final segments is carried
\* over.
C12_FullRecompute ==
  [][\A id \in Ids :
       Succeeded("appendTick", id) =>
         LET state == SESSIONS'[id]
         IN /\ state.smoothed = smoothTicks(state.rawTicks)
            /\ IndexAligned(state)
            /\ state.segmentsFinal = FromScratch(state.rawTicks, hasRecording(state))]_vars

\* an appendTick has just rebuilt a log of MaxTicks ticks into several segments
C12_Witness ==
  /\ called = Call("appendTick", "s1") /\ returned = "state"
  /\ "s1" \in DOMAIN SESSIONS
  /\ Len(SESSIONS["s1"].rawTicks) = MaxTicks
  /\ Len(SESSIONS["s1"].segmentsFinal) >= 2
  /\ SESSIONS["s1"].segmentsFinal =
       FromScratch(SESSIONS["s1"].rawTicks, hasRecording(SESSIONS["s1"]))

\* the fields of a segment that setUserFix does not write
SameButFix(a, b) ==
  /\ a.id = b.id /\ a.start = b.start /\ a.end = b.end /\ a.type = b.type
  /\ a.suggestedFix = b.suggestedFix /\ a.bridgeAllowed = b.bridgeAllowed
  /\ a.confidenceAvg = b.confidenceAvg

\* C13: a successful setUserFix changes only userFix and finalFix of the
\* segment with the given id: the number of segments, every segment's id,
\* start, end, type, suggestedFix and bridgeAllowed, the userFix and finalFix
\* of every other segment, the raw tick log and the smoothed ticks are
\* unchanged.
C13_SetUserFixFrame ==
  [][\A id \in Ids :
       Succeeded("setUserFix", id) =>
         LET before == SESSIONS[id]
             after == SESSIONS'[id]
         IN /\ DOMAIN SESSIONS' = DOMAIN SESSIONS
            /\ after.rawTicks = before.rawTicks
            /\ after.smoothed = before.smoothed
            /\ after.segmentsRaw = before.segmentsRaw
            /\ after.status = before.status
            /\ Len(after.segmentsFinal) = Len(before.segmentsFinal)
            /\ \A i \in 1..Len(before.segmentsFinal) :
                 /\ SameButFix(before.segmentsFinal[i], after.segmentsFinal[i])
                 /\ IF before.segmentsFinal[i].id = called'.segmentId
                    THEN /\ after.segmentsFinal[i].userFix = called'.fix
                         /\ after.segmentsFinal[i].finalFix = called'.fix
                    ELSE /\ after.segmentsFinal[i].userFix = before.segmentsFinal[i].userFix
                         /\ after.segmentsFinal[i].finalFix = before.segmentsFinal[i].finalFix]_vars

\* a setUserFix has just succeeded on one segment of several, another of which
\* carries a different override
C13_Witness ==
  /\ called.op = "setUserFix" /\ called.id = "s1" /\ returned = "state"
  /\ "s1" \in DOMAIN SESSIONS
  /\ \E i, j \in 1..Len(SESSIONS["s1"].segmentsFinal) :
       /\ i # j
       /\ SESSIONS["s1"].segmentsFinal[i].id = called.segmentId
       /\ SESSIONS["s1"].segmentsFinal[i].userFix = called.fix
       /\ SESSIONS["s1"].segmentsFinal[j].userFix \in Fixes \ {called.fix}

SegmentIds(state) == {state.segmentsFinal[i].id : i \in 1..Len(state.segmentsFinal)}

\* C14: setUserFix with an unknown session id or with a segment id that is
\* not among the final segments, and appendTick or stopSession with an unknown
\* session id, return the not-found result and change nothing in the store:
\* no session created, no tick appended, no segment modified.
C14_NotFoundLeavesStore ==
  [][\A id \in Ids \cup Strangers :
       LET unknownSession ==
             /\ called'.op \in {"appendTick", "stopSession", "setUserFix"}
             /\ called'.id = id
             /\ ~Known(id)
           unknownSegment ==
             /\ called'.op = "setUserFix"
             /\ called'.id = id
             /\ Known(id)
             /\ called'.segmentId \notin SegmentIds(SESSIONS[id])
       IN (unknownSession \/ unknownSegment) =>
            /\ returned' = "null"
            /\ SESSIONS' = SESSIONS
            /\ RUNNING' = RUNNING]_vars

\* setUserFix has just returned not-found for a segment id that a session
\* with segments does not hold
C14_Witness ==
  /\ called.op = "setUserFix" /\ called.id = "s1" /\ returned = "null"
  /\ "s1" \in DOMAIN SESSIONS
  /\ Len(SESSIONS["s1"].segmentsFinal) >= 2
  /\ called.segmentId \notin SegmentIds(SESSIONS["s1"])

\* C15: when bridgeAllowed is false on a segment, a setUserFix(.., "BRIDGE")
\* aimed at it is rejected: the segment's userFix and finalFix stay what they
\* were.
C15_BridgeRejected ==
  [][\A id \in Ids :
       (called'.op = "setUserFix" /\ called'.id = id /\ called'.fix = "BRIDGE" /\ Known(id)) =>
         \A i \in 1..Len(SESSIONS[id].segmentsFinal) :
           LET seg == SESSIONS[id].segmentsFinal[i]
           IN (seg.id = called'.segmentId /\ seg.bridgeAllowed = "false") =>
                /\ SESSIONS'[id].segmentsFinal[i].userFix = seg.userFix
                /\ SESSIONS'[id].segmentsFinal[i].finalFix = seg.finalFix]_vars

\* the structural preconditions of a bridge hold for segment i of the session
BridgePreconditions(state, i) ==
  LET segs == state.segmentsFinal
  IN /\ segs[i].type = "SHAKY"
     /\ segs[i].end - segs[i].start < BRIDGE_MAX_DURATION
     /\ i > 1 /\ segs[i - 1].type = "GOOD"
     /\ i < Len(segs) /\ segs[i + 1].type = "GOOD"
     /\ hasRecording(state)

\* C16: in every reachable session state a segment has bridgeAllowed = true
\* only if it is SHAKY and shorter than 8.0s, a GOOD segment immediately
\* precedes and follows it, and the session has a recording reference.
C16_BridgeAllowedSound ==
  \A id \in DOMAIN SESSIONS :
    \A i \in 1..Len(SESSIONS[id].segmentsFinal) :
      SESSIONS[id].segmentsFinal[i].bridgeAllowed = "true"
        => BridgePreconditions(SESSIONS[id], i)

(***************************************************************************)
(* Claims about suggestFix and the bridge decorator (SpecDecorate)         *)
(***************************************************************************)
Duration(seg) == seg.end - seg.start

IsGoodAt(segs, i) == i >= 1 /\ i <= Len(segs) /\ segs[i].type = "GOOD"

\* C17: for every SHAKY segment of any list, the decorator sets bridgeAllowed
\* to true exactly when the duration is strictly below 8.0s, the segment just
\* before exists and is GOOD, the segment just after exists and is GOOD, and
\* hasRecording is true; otherwise it sets it to false.
C17_BridgeAllowedExact ==
  /\ Len(decorateOut) = Len(decorateIn)
  /\ \A i \in 1..Len(decorateIn) :
       decorateIn[i].type = "SHAKY" =>
         decorateOut[i].bridgeAllowed =
           (IF /\ Duration(decorateIn[i]) < BRIDGE_MAX_DURATION
               /\ IsGoodAt(decorateIn, i - 1)
               /\ IsGoodAt(decorateIn, i + 1)
               /\ decorateRec
            THEN "true" ELSE "false")

\* GOOD, SHAKY of exactly 8.0s, GOOD with a recording: not bridge-eligible
C17_Witness ==
  /\ Len(decorateIn) = 3 /\ decorateRec
  /\ decorateIn[1].type = "GOOD" /\ decorateIn[2].type = "SHAKY" /\ decorateIn[3].type = "GOOD"
  /\ Duration(decorateIn[2]) = BRIDGE_MAX_DURATION
  /\ decorateOut[2].bridgeAllowed = "false"

\* C18: for every SHAKY segment suggestFix sets suggestedFix = BRIDGE when
\* end - start <= 2.0s (2.0s included) and STABILIZE otherwise; every GOOD
\* segment gets finalFix = KEEP and no suggestedFix.
C18_SuggestFixBoundary ==
  \A i \in 1..Len(decorateIn) :
    IF decorateIn[i].type = "SHAKY"
    THEN decorateOut[i].suggestedFix =
           (IF Duration(decorateIn[i]) <= BRIDGE_SUGGEST_MAX THEN "BRIDGE" ELSE "STABILIZE")
    ELSE decorateOut[i].finalFix = "KEEP" /\ decorateOut[i].suggestedFix = UNDEFINED

\* a SHAKY segment of exactly 2.0s, one just longer, and a GOOD one
C18_Witness ==
  \E i, j, k \in 1..Len(decorateIn) :
    /\ decorateIn[i].type = "SHAKY" /\ Duration(decorateIn[i]) = BRIDGE_SUGGEST_MAX
    /\ decorateOut[i].suggestedFix = "BRIDGE"
    /\ decorateIn[j].type = "SHAKY" /\ Duration(decorateIn[j]) = BRIDGE_SUGGEST_MAX + 1
    /\ decorateOut[j].suggestedFix = "STABILIZE"
    /\ decorateIn[k].type = "GOOD" /\ decorateOut[k].finalFix = "KEEP"

\* C19: decoration is idempotent: suggestFix over every segment followed by
\* the bridge decorator, applied to the result of a first application with
\* the same hasRecording, gives that result again.
C19_DecorateIdempotent ==
  decorate(decorateOut, decorateRec) = decorateOut

\* a decorated list with a bridge-eligible segment suggested BRIDGE, which a
\* second decoration leaves as it is
C19_Witness ==
  /\ Len(decorateOut) = 3
  /\ decorateOut[2].bridgeAllowed = "true"
  /\ decorateOut[2].suggestedFix = "BRIDGE"
  /\ decorate(decorateOut, decorateRec)[2] = decorateOut[2]

(***************************************************************************)
(* Claims about caption generation (SpecCaptions)                          *)
(***************************************************************************)
\* the caption jobs still running for the session object stored under id
InFlight(id) ==
  {j \in 1..Len(jobs) :
     jobs[j].id = id /\ jobs[j].live /\ jobs[j].pc \in {"transcribing", "persisting"}}

\* a stopped session with a recording reference whose captions are running
CaptionsRunning(id) ==
  /\ id \in DOMAIN SESSIONS
  /\ SESSIONS[id].status = "stopped"
  /\ hasRecording(SESSIONS[id])
  /\ SESSIONS[id].captions.status = "running"

\* the step is the arrival of a generateCaptions call for id: the call record
\* names it and no job recorded so far has moved
CallArrived(id) ==
  /\ called' = Call("generateCaptions", id)
  /\ Len(jobs') >= Len(jobs)
  /\ SubSeq(jobs', 1, Len(jobs)) = jobs

\* C20: whatever the interleaving of generateCaptions calls on one stopped
\* session with a recording reference, at most one caption job is in flight
\* for it at any time: a call that arrives while captions.status is running
\* returns the session with status running and starts no second job.
C20_OneCaptionJob ==
  [][\A id \in Ids :
       /\ Cardinality(InFlight(id)') <= 1
       /\ (CaptionsRunning(id) /\ CallArrived(id)) =>
            /\ returned' = "state"
            /\ jobs' = jobs
            /\ CAPTION_JOBS' = CAPTION_JOBS
            /\ SESSIONS'[id].captions.status = "running"]_vars

\* a second call has returned while the first call's job is still transcribing
C20_Witness ==
  /\ CaptionsRunning("s1")
  /\ called = Call("generateCaptions", "s1") /\ returned = "state"
  /\ Len(jobs) = 1 /\ jobs[1].pc = "transcribing" /\ jobs[1].live
  /\ InFlight("s1") = {1}
  /\ CAPTION_JOBS = [x \in {"s1"} |-> 1]

(***************************************************************************)
(* Claims about the edit plan and the tick log                             *)
(***************************************************************************)
\* in time order, each segment starting exactly where the one before it ends
Chained(segs) ==
  \A i \in 2..Len(segs) : segs[i].start = segs[i - 1].end

\* C23: in every plan computeEditPlan returns, after any sequence of
\* appendTick, stop and applyIntroTrim, the segments are in time order and
\* contiguous: each starts exactly where the previous one ends.
C23_PlanContiguous ==
  \A id \in DOMAIN SESSIONS :
    computeEditPlan(id) # NoPlan => Chained(computeEditPlan(id).segments)

IsPrefix(a, b) == Len(a) <= Len(b) /\ SubSeq(b, 1, Len(a)) = a

\* C25: across any sequence of operations on one session id, startSession
\* called again for that id included, the raw tick log only grows by
\* appending: the log before a step is a prefix of the log after it.
C25_TickLogAppendOnly ==
  [][\A id \in Ids :
       (id \in DOMAIN SESSIONS /\ id \in DOMAIN SESSIONS') =>
         IsPrefix(SESSIONS[id].rawTicks, SESSIONS'[id].rawTicks)]_vars

\* the ids of the plan's segments are ids of final segments, in their order
IdsInOrder(planSegs, finalSegs) ==
  \E pick \in [1..Len(planSegs) -> 1..Len(finalSegs)] :
    /\ \A k \in 1..Len(planSegs) :
         /\ planSegs[k].id = finalSegs[pick[k]].id
         /\ planSegs[k].type = finalSegs[pick[k]].type
         /\ planSegs[k].end = finalSegs[pick[k]].end
    /\ \A k \in 2..Len(planSegs) : pick[k - 1] < pick[k]

\* C26: a computeEditPlan call changes nothing in the store; it returns null
\* exactly when the id is unknown or the session is idle; any other result
\* has version 1 and its segments come from the session's final segments
\* (the final segments themselves when no intro trim was applied).
C26_PlanIsProjection ==
  [][called'.op = "computeEditPlan" =>
       LET id == called'.id IN
         /\ SESSIONS' = SESSIONS /\ RUNNING' = RUNNING
         /\ (planned' = NoPlan) <=>
              (id \notin DOMAIN SESSIONS \/ SESSIONS[id].status = "idle")
         /\ planned' # NoPlan =>
              /\ planned'.version = 1
              /\ planned'.session_id = id
              /\ IdsInOrder(planned'.segments, SESSIONS[id].segmentsFinal)
              /\ ~SESSIONS[id].introTrim.defined =>
                   planned'.segments = SESSIONS[id].segmentsFinal]_vars

\* a plan was handed out for a running session with segments, and null for a
\* stranger
C26_Witness ==
  /\ called.op = "computeEditPlan" /\ planned # NoPlan
  /\ SESSIONS[called.id].status = "running"
  /\ Len(planned.segments) >= 2

C26_WitnessNull ==
  called.op = "computeEditPlan" /\ planned = NoPlan /\ called.id \in Strangers

StrictlyIncreasing(raw) == \A i \in 2..Len(raw) : raw[i - 1].ts < raw[i].ts

\* C24: for a tick log with non-negative, strictly increasing ts, every
\* segment of the final segment list has end > start.
C24_SegmentsNonEmpty ==
  (StrictlyIncreasing(smoothIn) /\ \A i \in 1..Len(smoothIn) : smoothIn[i].ts >= 0) =>
    \A k \in 1..Len(finalOut) : finalOut[k].end > finalOut[k].start

\* the same with every ts above 0
C24_NonEmptyAfterZero ==
  (StrictlyIncreasing(smoothIn) /\ \A i \in 1..Len(smoothIn) : smoothIn[i].ts > 0) =>
    \A k \in 1..Len(finalOut) : finalOut[k].end > finalOut[k].start

\* segs covers [0, last] without gap or overlap
Tiles(segs, last) ==
  /\ Len(segs) > 0
  /\ segs[1].start = 0
  /\ Chained(segs)
  /\ segs[Len(segs)].end = last

\* C30: for a non-empty smoothed sequence with strictly increasing ts > 0,
\* buildSegments returns segments that tile [0, last ts]; a single tick
\* gives the one segment [0, ts].
C30_BuildTiles ==
  (/\ Len(smoothOut) > 0
   /\ StrictlyIncreasing(smoothOut)
   /\ \A i \in 1..Len(smoothOut) : smoothOut[i].ts > 0) =>
    /\ Tiles(buildOut, smoothOut[Len(smoothOut)].ts)
    /\ Len(smoothOut) = 1 =>
         /\ Len(buildOut) = 1
         /\ Duration(buildOut[1]) = smoothOut[1].ts

\* the tick log of the scenario: ts = 1..10, shaky exactly at ts = 3, 4, 5
\* with confidence 0.6, not shaky with confidence 0.2 elsewhere
ScenarioLog(raw) ==
  /\ Len(raw) = 10
  /\ \A i \in 1..Len(raw) :
       /\ raw[i].ts = i * ONE_SECOND
       /\ raw[i].raw.shaky = (i \in {3, 4, 5})
       /\ raw[i].raw.confidence = IF i \in {3, 4, 5} THEN ScenarioConf.shaky
                                  ELSE ScenarioConf.good

\* the first SHAKY tick of smoothed is tick n
EntersShakyAt(smoothed, n) ==
  /\ smoothed[n].finalState = "SHAKY"
  /\ \A i \in 1..(n - 1) : smoothed[i].finalState = "GOOD"

\* smoothed is SHAKY up to tick n - 1 and GOOD at tick n
ReturnsGoodAt(smoothed, n) ==
  smoothed[n - 1].finalState = "SHAKY" /\ smoothed[n].finalState = "GOOD"

ScenarioPlan(segs) ==
  /\ Len(segs) = 3
  /\ segs[1].type = "GOOD" /\ segs[2].type = "SHAKY" /\ segs[3].type = "GOOD"
  /\ Tiles(segs, 10 * ONE_SECOND)
  /\ segs[2].suggestedFix = IF Duration(segs[2]) <= BRIDGE_SUGGEST_MAX THEN "BRIDGE"
                            ELSE "STABILIZE"

\* C28 as stated: on the scenario log, smoothing enters SHAKY at ts = 4 and
\* returns to GOOD at ts = 6, and the final segments are GOOD, SHAKY, GOOD
\* tiling [0, 10], the SHAKY one with BRIDGE if it lasts <= 2s, else STABILIZE.
C28_ScenarioAsStated ==
  ScenarioLog(smoothIn) =>
    /\ EntersShakyAt(smoothOut, 4)
    /\ ReturnsGoodAt(smoothOut, 6)
    /\ ScenarioPlan(finalOut)

\* C28 amended: on the scenario log, smoothing enters SHAKY at ts = 4 and
\* returns to GOOD at ts = 7 (the window at ts = 6 still holds two shaky
\* ticks); the final segments are GOOD, SHAKY, GOOD tiling [0, 10], the SHAKY
\* one with BRIDGE if it lasts <= 2s, else STABILIZE.
C28_Scenario ==
  ScenarioLog(smoothIn) =>
    /\ EntersShakyAt(smoothOut, 4)
    /\ ReturnsGoodAt(smoothOut, 7)
    /\ ScenarioPlan(finalOut)

\* the scenario log went through the pipeline; its SHAKY segment is [3, 6]
C28_Witness ==
  /\ ScenarioLog(smoothIn)
  /\ Len(finalOut) = 3
  /\ finalOut[2].start = 3 * ONE_SECOND /\ finalOut[2].end = 6 * ONE_SECOND
  /\ finalOut[2].suggestedFix = "STABILIZE"

\* a stored confidence that is a finite number within [0, 1]
ConfidenceInRange(raw) ==
  "nan" \notin DOMAIN raw /\ raw.confidence >= 0 /\ raw.confidence <= 100

\* C29: every tick stored in a session's tick log has raw.confidence finite
\* and within [0, 1], whatever payload reached onResult or the tick route.
C29_ConfidenceClamped ==
  \A id \in DOMAIN SESSIONS :
    \A i \in 1..Len(SESSIONS[id].rawTicks) :
      ConfidenceInRange(SESSIONS[id].rawTicks[i].raw)

(***************************************************************************)
(* Claims about failures and await points                                  *)
(***************************************************************************)
\* the step is the failure of caption job j
JobFails(j) ==
  /\ j \in 1..Len(jobs) /\ jobs[j].pc \in {"transcribing", "persisting"}
  /\ Len(jobs') = Len(jobs) /\ jobs'[j].pc = "settled"
  /\ j \in DOMAIN jobs' /\ jobs'[j].live
  /\ jobs[j].id \in DOMAIN SESSIONS'
  /\ SESSIONS'[jobs[j].id].captions.status = "error"

\* the step is the return of the generateCaptions call that waited for job j
CallReturns(j) ==
  j \in 1..Len(jobs) /\ jobs[j].pc = "settled" /\ jobs'[j].pc = "returned"

\* C21: when the caption job fails, the session's captions.status becomes
\* error with the error message stored, and the tick log, the segments, the
\* session status and the recording reference stay what they were; the
\* generateCaptions call that waited for the job returns the session, it does
\* not throw.
C21_JobFailureContained ==
  [][\A j \in 1..MaxJobs :
       /\ JobFails(j) =>
            LET id == jobs[j].id IN
              /\ SESSIONS'[id].captions.status = "error"
              /\ SESSIONS'[id].captions.error = "message"
              /\ SESSIONS' = [SESSIONS EXCEPT ![id].captions = SESSIONS'[id].captions]
              /\ RUNNING' = RUNNING
       /\ CallReturns(j) => returned' = "state" /\ SESSIONS' = SESSIONS]_vars

\* the job of a session with ticks and segments has failed and the call that
\* waited for it has returned
C21_Witness ==
  /\ Len(jobs) >= 1 /\ jobs[1].pc = "returned" /\ jobs[1].live
  /\ SESSIONS[jobs[1].id].captions.status = "error"
  /\ "finishedAt" \in DOMAIN SESSIONS[jobs[1].id].captions
  /\ Len(SESSIONS[jobs[1].id].rawTicks) >= 2
  /\ Len(SESSIONS[jobs[1].id].segmentsFinal) >= 1
  /\ called = Call("generateCaptions", jobs[1].id) /\ returned = "state"

\* a segment without what setUserFix writes on it
WithoutOverride(seg) ==
  [id |-> seg.id, start |-> seg.start, end |-> seg.end, type |-> seg.type,
   confidenceAvg |-> seg.confidenceAvg, suggestedFix |-> seg.suggestedFix,
   bridgeAllowed |-> seg.bridgeAllowed]

\* segs is what the pipeline gives for rawTicks, user overrides aside, with
\* the recording either seen or not by the decorator
PipelineResult(segs, rawTicks) ==
  \E rec \in BOOLEAN :
    [k \in 1..Len(segs) |-> WithoutOverride(segs[k])]
      = [k \in 1..Len(FromScratch(rawTicks, rec)) |->
           WithoutOverride(FromScratch(rawTicks, rec)[k])]

C27_StopRecomputesWithRecording ==
  \A id \in DOMAIN SESSIONS :
    (called = Call("stopSession", id) /\ returned = "state") =>
      /\ SESSIONS[id].status = "stopped"
      /\ SESSIONS[id].duration # NULL
      /\ SESSIONS[id].segmentsFinal
           = FromScratch(SESSIONS[id].rawTicks, hasRecording(SESSIONS[id]))

(***************************************************************************)
(* More claims about cleanupSegments (SpecCleanup)                         *)
(***************************************************************************)
Alternating(segs) == \A i \in 2..Len(segs) : segs[i].type # segs[i - 1].type

\* C31: for an input whose segment types alternate, the output of
\* cleanupSegments holds no two consecutive GOOD segments.
C31_NoAdjacentGood ==
  Alternating(cleanupIn) =>
    \A i \in 2..Len(cleanupOut) :
      ~(cleanupOut[i - 1].type = "GOOD" /\ cleanupOut[i].type = "GOOD")

\* C32: cleanupSegments leaves the list it was given as it was: the same
\* segments with the same start, end and type.
C32_CleanupLeavesInput == cleanupArg = cleanupIn

\* the list the first loop of cleanupSegments builds
PassOne(segs) == cleanupPass1(segs, 1, <<>>).cleaned

C33_OverrideKept ==
  /\ Len(decorateOut) = Len(decorateIn)
  /\ \A k \in 1..Len(decorateOut) :
       /\ decorateOut[k].userFix = decorateIn[k].userFix
       /\ (/\ decorateIn[k].type = "SHAKY"
           /\ decorateIn[k].userFix = "BRIDGE"
           /\ decorateOut[k].bridgeAllowed = "false") =>
            decorateOut[k].finalFix = "BRIDGE"

\* a SHAKY segment of 8.0s between two GOOD segments, chosen for BRIDGE,
\* decorated with a recording: too long for a bridge, the choice stands
C33_Witness ==
  /\ Len(decorateIn) = 3 /\ decorateRec
  /\ decorateIn[1].type = "GOOD" /\ decorateIn[3].type = "GOOD"
  /\ decorateIn[2].type = "SHAKY" /\ decorateIn[2].userFix = "BRIDGE"
  /\ Duration(decorateIn[2]) = BRIDGE_MAX_DURATION
  /\ decorateOut[2].bridgeAllowed = "false"
  /\ decorateOut[2].userFix = "BRIDGE" /\ decorateOut[2].finalFix = "BRIDGE"

(***************************************************************************)
(* Claims about the intro trim decision (SpecTrim)                         *)
(***************************************************************************)
\* C35: createIntroTrimDecision returns a TRIM_INTRO decision exactly when
\* the predicted intro_trim_seconds is >= 2.0 (2.0 included), with
\* trim_seconds the predicted value and the prediction carried unchanged;
\* below 2.0, 0 included, it returns null.
C35_TrimDecision ==
  \A id \in DOMAIN SESSIONS :
    (SESSIONS[id].introTrim.defined /\ SESSIONS[id].introTrim.error = UNDEFINED) =>
      LET prediction == SESSIONS[id].introTrim.prediction
          decision == SESSIONS[id].introTrim.decision
      IN IF prediction.intro_trim_seconds >= 20
         THEN decision = [type |-> "TRIM_INTRO",
                          trim_seconds |-> prediction.intro_trim_seconds,
                          prediction |-> prediction]
         ELSE decision = NoDecision

\* a prediction of exactly 2.0s gave a decision to trim 2.0s
C35_Witness ==
  \E id \in DOMAIN SESSIONS :
    /\ called.op = "applyIntroTrim" /\ called.id = id
    /\ SESSIONS[id].introTrim.defined
    /\ SESSIONS[id].introTrim.error = UNDEFINED
    /\ SESSIONS[id].introTrim.prediction.intro_trim_seconds = 20
    /\ SESSIONS[id].introTrim.decision.type = "TRIM_INTRO"
    /\ SESSIONS[id].introTrim.decision.trim_seconds = 20

(***************************************************************************)
(* Claims about the three smoothers (SpecSmoothers)                        *)
(***************************************************************************)
FinalStates(smoothed) == [k \in 1..Len(smoothed) |-> smoothed[k].finalState]

\* C37: for every sequence of raw ticks the web smoothTicks, the backend
\* smoothTicks and the mobile nextSmoothedState folded from GOOD and an empty
\* buffer give the same sequence of finalState.
C37_SmoothersAgree ==
  /\ FinalStates(backendOut) = FinalStates(smoothOut)
  /\ FinalStates(mobileOut) = FinalStates(smoothOut)

\* three shaky ticks, then three calm ones: each smoother has left GOOD and
\* come back to it, with a full buffer that has shifted
C37_Witness ==
  /\ Len(smoothIn) = 6
  /\ Len(backendOut) = Len(smoothIn) /\ Len(mobileOut) = Len(smoothIn)
  /\ \A k \in 1..3 : smoothIn[k].raw.shaky
  /\ \A k \in 4..6 : ~smoothIn[k].raw.shaky /\ smoothIn[k].raw.confidence < HIGH_CONFIDENCE
  /\ FinalStates(mobileOut)[4] = "SHAKY" /\ FinalStates(backendOut)[4] = "SHAKY"
  /\ FinalStates(mobileOut)[5] = "GOOD" /\ FinalStates(backendOut)[5] = "GOOD"

(***************************************************************************)
(* Claims about a tick log at the nominal rate (SpecNominal)               *)
(***************************************************************************)
SameShape(a, b) ==
  /\ Len(a) = Len(b)
  /\ \A k \in 1..Len(a) :
       a[k].start = b[k].start /\ a[k].end = b[k].end /\ a[k].type = b[k].type

\* C38: for a tick log with ts = 1, 2, ..., n every segment buildSegments
\* builds has duration >= 1s; the final segments have the start, end and
\* type of the raw segments, alternate between GOOD and SHAKY and tile [0, n].
C38_NominalUntouched ==
  Len(smoothIn) > 0 =>
    /\ \A k \in 1..Len(buildOut) : Duration(buildOut[k]) >= ONE_SECOND
    /\ SameShape(finalOut, buildOut)
    /\ Alternating(finalOut)
    /\ Tiles(finalOut, Len(smoothIn) * ONE_SECOND)

\* a log whose segments include a SHAKY one of exactly 1s between two GOOD
\* ones, which cleanup keeps
C38_Witness ==
  /\ Len(smoothIn) >= 5
  /\ \E k \in 2..(Len(finalOut) - 1) :
       /\ finalOut[k].type = "SHAKY" /\ Duration(finalOut[k]) = ONE_SECOND
       /\ finalOut[k - 1].type = "GOOD" /\ finalOut[k + 1].type = "GOOD"

(***************************************************************************)
(* Claims about the renderer (SpecRender)                                  *)
(***************************************************************************)
\* segment k of the plan is one the renderer runs VEO_BRIDGE_CMD for, and the
\* command fails
BridgeFails(k) ==
  /\ renderIn.cmd
  /\ renderIn.segments[k].type = "SHAKY"
  /\ renderIn.segments[k].final_fix = "BRIDGE"
  /\ Duration(renderIn.segments[k]) < BRIDGE_MAX_DURATION
  /\ renderIn.external[k] # "exit 0"

\* C34: when VEO_BRIDGE_CMD exits non-zero or cannot be spawned for a segment
\* whose fix is BRIDGE, renderFinalMp4 completes: the segment gets the
\* crossfade piece and bridge_error in its outputs.
C34_BridgeFailureFallsBack ==
  \A k \in 1..Len(renderIn.segments) :
    (renderOut # NoRender /\ BridgeFails(k)) =>
      /\ renderOut.ended = "final"
      /\ renderOut.segments[k].outputs.bridge_error # UNDEFINED
      /\ \E p \in 1..Len(renderOut.pieces) :
           renderOut.pieces[p] = [seg |-> k, kind |-> "fallback"]

(***************************************************************************)
(* Claims about the recording reference across stopSession (SpecAsync)     *)
(***************************************************************************)
\* call c of the next state is a stopSession for id that has just made its
\* assignments and reached fetchRecordingUrl
JustMarked(c, id) ==
  /\ c \in 1..Len(calls')
  /\ calls'[c].op = "stopSession" /\ calls'[c].id = id
  /\ calls'[c].pc = "fetchRecordingUrl"
  /\ \/ c = Len(calls) + 1
     \/ c <= Len(calls) /\ calls[c].pc = "vision.stop"

JobTranscribing(j) == j <= Len(jobs) /\ jobs[j].pc = "transcribing"

\* job j has written ready or error to the session object it holds, and
\* where that object is still the one stored under the id, the stored
\* session no longer says running
JobHasWritten(j) ==
  /\ j <= Len(jobs)
  /\ jobs[j].pc \in {"persisting", "settled", "returned"}
  /\ jobs[j].live => SESSIONS[jobs[j].id].captions.status \in {"ready", "error"}

\* C40: with every awaited call of the job terminating (returning or
\* throwing), every generateCaptions call that sets captions.status to
\* running is eventually followed by a state where captions.status is ready
\* or error.
C40_CaptionsSettle ==
  /\ \A j \in 1..MaxJobs : JobTranscribing(j) ~> JobHasWritten(j)
  /\ \A id \in Ids :
       (Known(id) /\ SESSIONS[id].captions.status = "running")
         ~> (Known(id) /\ SESSIONS[id].captions.status \in {"ready", "error", "idle"})

\* the call that waited for a job has returned, and the session the job
\* wrote to shows captions that are ready
C40_Witness ==
  \E j \in 1..Len(jobs) :
    /\ jobs[j].pc = "returned" /\ jobs[j].live
    /\ SESSIONS[jobs[j].id].captions.status = "ready"
    /\ SESSIONS[jobs[j].id].captions.startedAt = "time"

=============================================================================
